---- MODULE Spec2Model ----
\* Natural-language-to-SQL pipeline of ai_agentic_chatbot: the SQL subgraph
\* (retrieve_schemas -> generate_sql -> validate_query -> execute_query with a
\* bounded regeneration loop), its state channels and its routing functions.
EXTENDS Integers, Sequences, FiniteSets, TLC

VARIABLES state, pc, last_node, last_update, last_sql, last_prompt

vars == <<state, pc, last_node, last_update, last_sql, last_prompt>>

\* ---------------------------------------------------------------------------
\* Bounds of the model
\* ---------------------------------------------------------------------------

\* largest max_retries a run is started with
MaxRetriesBound == 3

\* ---------------------------------------------------------------------------
\* Python values
\* ---------------------------------------------------------------------------

\* Optional[T]: None is the empty tuple, a present value v is <<v>>
None == <<>>

Some(v) == <<v>>

\* truthiness of an Optional[str] / Optional[list]: None, "" and [] are falsy
Falsy(o) == o = None \/ Len(o[1]) = 0

\* dict.get(key, default)
Get(d, k, default) == IF k \in DOMAIN d THEN d[k] ELSE default

\* str.lower(), on the letters
LowerChar(c) ==
    CASE c = "A" -> "a"
      [] c = "B" -> "b"
      [] c = "C" -> "c"
      [] c = "D" -> "d"
      [] c = "E" -> "e"
      [] c = "F" -> "f"
      [] c = "G" -> "g"
      [] c = "H" -> "h"
      [] c = "I" -> "i"
      [] c = "J" -> "j"
      [] c = "K" -> "k"
      [] c = "L" -> "l"
      [] c = "M" -> "m"
      [] c = "N" -> "n"
      [] c = "O" -> "o"
      [] c = "P" -> "p"
      [] c = "Q" -> "q"
      [] c = "R" -> "r"
      [] c = "S" -> "s"
      [] c = "T" -> "t"
      [] c = "U" -> "u"
      [] c = "V" -> "v"
      [] c = "W" -> "w"
      [] c = "X" -> "x"
      [] c = "Y" -> "y"
      [] c = "Z" -> "z"
      [] OTHER -> c

Lower(s) == [i \in 1..Len(s) |-> LowerChar(s[i])]

\* Python's `needle in haystack` on strings
Contains(hay, needle) ==
    \E i \in 1..(Len(hay) - Len(needle) + 1) :
        SubSeq(hay, i, i + Len(needle) - 1) = needle

\* any(indicator in text for indicator in indicators)
AnyIn(indicators, text) ==
    \E j \in 1..Len(indicators) : Contains(text, indicators[j])

\* ---------------------------------------------------------------------------
\* Strings the model runs on (error messages of the database driver, candidate
\* SQL statements of the completion service), as sequences of characters
\* ---------------------------------------------------------------------------

\* "permission denied for relation orders"
MsgPermissionRelation ==
    <<"p","e","r","m","i","s","s","i","o","n"," ","d","e","n","i","e","d"," ","f","o","r"," ","r","e","l","a","t","i","o","n"," ","o","r","d","e","r","s">>

\* "ERROR: column revenue does not exist"
MsgColumnMissing ==
    <<"E","R","R","O","R",":"," ","c","o","l","u","m","n"," ","r","e","v","e","n","u","e"," ","d","o","e","s"," ","n","o","t"," ","e","x","i","s","t">>

\* "syntax error at or near FROM"
MsgSyntax ==
    <<"s","y","n","t","a","x"," ","e","r","r","o","r"," ","a","t"," ","o","r"," ","n","e","a","r"," ","F","R","O","M">>

\* "access denied for user reporting"
MsgAccessDenied ==
    <<"a","c","c","e","s","s"," ","d","e","n","i","e","d"," ","f","o","r"," ","u","s","e","r"," ","r","e","p","o","r","t","i","n","g">>

\* "connection refused"
MsgConnRefused ==
    <<"c","o","n","n","e","c","t","i","o","n"," ","r","e","f","u","s","e","d">>

\* "invalid input value for enum"
MsgInvalidInput ==
    <<"i","n","v","a","l","i","d"," ","i","n","p","u","t"," ","v","a","l","u","e"," ","f","o","r"," ","e","n","u","m">>

\* "deadlock detected"
MsgDeadlock ==
    <<"d","e","a","d","l","o","c","k"," ","d","e","t","e","c","t","e","d">>

\* "Query failed safety validation"
MsgNotValidated ==
    <<"Q","u","e","r","y"," ","f","a","i","l","e","d"," ","s","a","f","e","t","y"," ","v","a","l","i","d","a","t","i","o","n">>

\* "No SQL query to execute"
MsgNoSQL ==
    <<"N","o"," ","S","Q","L"," ","q","u","e","r","y"," ","t","o"," ","e","x","e","c","u","t","e">>

\* "SELECT name FROM users LIMIT 50"
SqlLimit50 ==
    <<"S","E","L","E","C","T"," ","n","a","m","e"," ","F","R","O","M"," ","u","s","e","r","s"," ","L","I","M","I","T"," ","5","0">>

\* "SELECT COUNT(*) FROM orders"
SqlCount ==
    <<"S","E","L","E","C","T"," ","C","O","U","N","T","(","*",")"," ","F","R","O","M"," ","o","r","d","e","r","s">>

\* "SELECT name FROM users; DROP TABLE users;"
SqlDrop ==
    <<"S","E","L","E","C","T"," ","n","a","m","e"," ","F","R","O","M"," ","u","s","e","r","s",";"," ","D","R","O","P"," ","T","A","B","L","E"," ","u","s","e","r","s",";">>

\* "SELECT * FROM orders"
SqlNoLimit ==
    <<"S","E","L","E","C","T"," ","*"," ","F","R","O","M"," ","o","r","d","e","r","s">>

syntax_indicators ==
    << <<"s","y","n","t","a","x"," ","e","r","r","o","r">>,
       <<"i","n","v","a","l","i","d"," ","s","y","n","t","a","x">>,
       <<"u","n","e","x","p","e","c","t","e","d"," ","t","o","k","e","n">>,
       <<"m","i","s","s","i","n","g">>,
       <<"e","x","p","e","c","t","e","d">>,
       <<"p","a","r","s","e"," ","e","r","r","o","r">> >>

not_found_indicators ==
    << <<"c","o","l","u","m","n">>,
       <<"t","a","b","l","e">>,
       <<"r","e","l","a","t","i","o","n">>,
       <<"d","o","e","s"," ","n","o","t"," ","e","x","i","s","t">>,
       <<"n","o","t"," ","f","o","u","n","d">>,
       <<"u","n","k","n","o","w","n"," ","c","o","l","u","m","n">>,
       <<"u","n","k","n","o","w","n"," ","t","a","b","l","e">> >>

permission_indicators ==
    << <<"p","e","r","m","i","s","s","i","o","n"," ","d","e","n","i","e","d">>,
       <<"a","c","c","e","s","s"," ","d","e","n","i","e","d">>,
       <<"i","n","s","u","f","f","i","c","i","e","n","t"," ","p","r","i","v","i","l","e","g","e","s">>,
       <<"n","o","t"," ","a","u","t","h","o","r","i","z","e","d">> >>

connection_indicators ==
    << <<"c","o","n","n","e","c","t","i","o","n">>,
       <<"t","i","m","e","o","u","t">>,
       <<"n","e","t","w","o","r","k">>,
       <<"h","o","s","t">>,
       <<"u","n","r","e","a","c","h","a","b","l","e">> >>

type_indicators ==
    << <<"t","y","p","e">>,
       <<"c","a","s","t">>,
       <<"c","o","n","v","e","r","t">>,
       <<"i","n","v","a","l","i","d"," ","i","n","p","u","t">>,
       <<"d","a","t","a"," ","t","y","p","e">> >>


\* ---------------------------------------------------------------------------
\* Executor: error classification (execute_query.py)
\* ---------------------------------------------------------------------------

\* _categorize_error: the first indicator list with a hit decides
categorize_error(error_msg) ==
    LET error_lower == Lower(error_msg) IN
    IF AnyIn(syntax_indicators, error_lower) THEN "syntax"
    ELSE IF AnyIn(not_found_indicators, error_lower) THEN "not_found"
    ELSE IF AnyIn(permission_indicators, error_lower) THEN "permission"
    ELSE IF AnyIn(connection_indicators, error_lower) THEN "connection"
    ELSE IF AnyIn(type_indicators, error_lower) THEN "type"
    ELSE "unknown"

\* messages the database driver raises in the model
ErrorMessages ==
    {MsgPermissionRelation, MsgColumnMissing, MsgSyntax, MsgAccessDenied,
     MsgConnRefused, MsgInvalidInput, MsgDeadlock}

\* MAX_QUERY_RESULTS
MAX_QUERY_RESULTS == 1000

\* a cell the driver hands over: its Python type and its value, numbers as they
\* are, other values by a number that stands for them
Cell(type, value) == [type |-> type, value |-> value]

\* _serialize_value: None stays; what has isoformat becomes its ISO string;
\* what has __float__ (Decimal and float, and also int and bool) becomes the
\* float of its value; bytes become their text (or the placeholder); lists,
\* dicts, tuples and objects become their str; the rest (str) passes unchanged
serialize_value(value) ==
    IF value.type = "NoneType" THEN value
    ELSE IF value.type \in {"datetime", "date"} THEN Cell("str", value.value)
    ELSE IF value.type \in {"Decimal", "float", "int", "bool"}
    THEN Cell("float", value.value)
    ELSE IF value.type = "bytes" THEN Cell("str", value.value)
    ELSE IF value.type \in {"list", "dict", "tuple", "object"}
    THEN Cell("str", value.value)
    ELSE value

\* the rows of a cursor with two columns: a str key and a cell of one kind
Rows(n, cell) == [i \in 1..n |-> <<Cell("str", i), cell>>]

\* result sets the statement yields in the pipeline runs
ResultSets ==
    {Rows(0, Cell("str", 7)), Rows(1, Cell("str", 7)), Rows(2, Cell("str", 7))}

\* what one database call does: it yields rows or raises
ExecutionOutcomes ==
    [kind : {"rows"}, rows : ResultSets, msg : {<<>>}]
        \cup [kind : {"raise"}, rows : {<<>>}, msg : ErrorMessages]

\* the warning the probe result.fetchone() leads to: logged when the cap was
\* reached and the cursor holds a further row
truncation_logged(o) ==
    /\ o.kind = "rows"
    /\ Len(SubSeq(o.rows, 1, IF Len(o.rows) < MAX_QUERY_RESULTS
                             THEN Len(o.rows) ELSE MAX_QUERY_RESULTS))
          = MAX_QUERY_RESULTS
    /\ Len(o.rows) > MAX_QUERY_RESULTS

\* execute_query_node that hands the probed row over with the others
execute_query_node_with_probed_row(s, o) ==
    IF ~Get(s, "is_safe", FALSE)
    THEN [execution_error |-> Some(MsgNotValidated)]
    ELSE IF Falsy(Get(s, "generated_sql", None))
    THEN [execution_error |-> Some(MsgNoSQL)]
    ELSE IF o.kind = "rows"
    THEN LET rows == SubSeq(o.rows, 1,
                         IF Len(o.rows) < MAX_QUERY_RESULTS + 1
                         THEN Len(o.rows) ELSE MAX_QUERY_RESULTS + 1)
             data == [i \in 1..Len(rows) |->
                         [c \in 1..Len(rows[i]) |-> serialize_value(rows[i][c])]]
         IN  [query_result |-> Some(data),
              execution_error |-> None,
              execution_time |-> 1,
              row_count |-> Len(data),
              has_more_results |-> Len(rows) >= MAX_QUERY_RESULTS]
    ELSE [query_result |-> None,
          execution_error |-> Some(o.msg),
          error_category |-> categorize_error(o.msg)]

\* execute_query_node: the state update the node returns; rows is
\* result.fetchmany(MAX_QUERY_RESULTS), data the rows with every cell
\* serialized (a row is kept as the tuple of its cells, in column order)
execute_query_node(s, o) ==
    IF ~Get(s, "is_safe", FALSE)
    THEN [execution_error |-> Some(MsgNotValidated)]
    ELSE IF Falsy(Get(s, "generated_sql", None))
    THEN [execution_error |-> Some(MsgNoSQL)]
    ELSE IF o.kind = "rows"
    THEN LET rows == SubSeq(o.rows, 1,
                         IF Len(o.rows) < MAX_QUERY_RESULTS
                         THEN Len(o.rows) ELSE MAX_QUERY_RESULTS)
             data == [i \in 1..Len(rows) |->
                         [c \in 1..Len(rows[i]) |-> serialize_value(rows[i][c])]]
         IN  [query_result |-> Some(data),
              execution_error |-> None,
              execution_time |-> 1,
              row_count |-> Len(data),
              has_more_results |-> Len(rows) = MAX_QUERY_RESULTS]
    ELSE [query_result |-> None,
          execution_error |-> Some(o.msg),
          error_category |-> categorize_error(o.msg)]

\* ---------------------------------------------------------------------------
\* Validator (validate_query.py)
\* ---------------------------------------------------------------------------

UpperChar(c) ==
    CASE c = "a" -> "A"
      [] c = "b" -> "B"
      [] c = "c" -> "C"
      [] c = "d" -> "D"
      [] c = "e" -> "E"
      [] c = "f" -> "F"
      [] c = "g" -> "G"
      [] c = "h" -> "H"
      [] c = "i" -> "I"
      [] c = "j" -> "J"
      [] c = "k" -> "K"
      [] c = "l" -> "L"
      [] c = "m" -> "M"
      [] c = "n" -> "N"
      [] c = "o" -> "O"
      [] c = "p" -> "P"
      [] c = "q" -> "Q"
      [] c = "r" -> "R"
      [] c = "s" -> "S"
      [] c = "t" -> "T"
      [] c = "u" -> "U"
      [] c = "v" -> "V"
      [] c = "w" -> "W"
      [] c = "x" -> "X"
      [] c = "y" -> "Y"
      [] c = "z" -> "Z"
      [] OTHER -> c

Letters ==
    {"a", "b", "c", "d", "e", "f", "g", "h", "i", "j", "k", "l", "m", "n", "o", "p", "q", "r", "s", "t", "u", "v", "w", "x", "y", "z", "A", "B", "C", "D", "E", "F", "G", "H", "I", "J", "K", "L", "M", "N", "O", "P", "Q", "R", "S", "T", "U", "V", "W", "X", "Y", "Z"}

\* str.upper(), on the letters
Upper(s) == [i \in 1..Len(s) |-> UpperChar(s[i])]

Digits == {"0", "1", "2", "3", "4", "5", "6", "7", "8", "9"}

\* \s of re, and the characters str.strip() removes
Whitespace == {" ", "\t", "\n", "\r", "\f"}

\* \w of re
WordChars == Letters \cup Digits \cup {"_"}

\* str.count(ch)
Count(s, ch) == Cardinality({i \in 1..Len(s) : s[i] = ch})

\* bool(s.strip())
NonBlank(s) == \E i \in 1..Len(s) : s[i] \notin Whitespace

\* s.strip().startswith(prefix)
StrippedStartsWith(s, prefix) ==
    \E i \in 1..Len(s) :
        /\ \A j \in 1..(i - 1) : s[j] \in Whitespace
        /\ s[i] \notin Whitespace
        /\ i + Len(prefix) - 1 <= Len(s)
        /\ SubSeq(s, i, i + Len(prefix) - 1) = prefix

\* the regular expressions of the validator: a pattern is a sequence of items,
\* a literal character, a repeated character class or a word boundary
Lit(s) == [i \in 1..Len(s) |-> [t |-> "lit", c |-> s[i]]]

Star(cls) == <<[t |-> "star", c |-> cls]>>

Plus(cls) == <<[t |-> "plus", c |-> cls]>>

WordBoundary == <<[t |-> "wb", c |-> ""]>>

\* the character classes: . (with or without re.DOTALL), \s, \d, [^']
InClass(cls, ch, dotall) ==
    CASE cls = "any" -> dotall \/ ch # "\n"
      [] cls = "ws" -> ch \in Whitespace
      [] cls = "digit" -> ch \in Digits
      [] cls = "notquote" -> ch # "'"

\* how many characters of the class stand at text[i..]
Run(cls, text, i, dotall) ==
    CHOOSE n \in 0..(Len(text) + 1 - i) :
        /\ i + n > Len(text) \/ ~InClass(cls, text[i + n], dotall)
        /\ \A m \in 0..(n - 1) : InClass(cls, text[i + m], dotall)

\* \b at the gap before text[i]
AtWordBoundary(text, i) ==
    LET before == i > 1 /\ text[i - 1] \in WordChars
        after == i <= Len(text) /\ text[i] \in WordChars
    IN  before # after

\* pat[k..] matches a prefix of text[i..]
RECURSIVE MatchFrom(_, _, _, _, _)
MatchFrom(pat, k, text, i, dotall) ==
    IF k > Len(pat) THEN TRUE
    ELSE LET item == pat[k] IN
         CASE item.t = "lit" ->
                /\ i <= Len(text)
                /\ text[i] = item.c
                /\ MatchFrom(pat, k + 1, text, i + 1, dotall)
           [] item.t = "star" ->
                \E n \in 0..Run(item.c, text, i, dotall) :
                    MatchFrom(pat, k + 1, text, i + n, dotall)
           [] item.t = "plus" ->
                \E n \in 1..Run(item.c, text, i, dotall) :
                    MatchFrom(pat, k + 1, text, i + n, dotall)
           [] item.t = "wb" ->
                /\ AtWordBoundary(text, i)
                /\ MatchFrom(pat, k + 1, text, i, dotall)

\* re.search(pattern, text) finds a match
Search(pat, text, dotall) ==
    \E i \in 1..(Len(text) + 1) : MatchFrom(pat, 1, text, i, dotall)

\* any(re.search(pattern, text) for pattern in patterns)
AnySearch(patterns, text) ==
    \E j \in 1..Len(patterns) : Search(patterns[j], text, FALSE)

\* the messages of the (pattern, message) pairs whose pattern is found
Messages(pairs, text, dotall) ==
    LET hits == SelectSeq(pairs, LAMBDA pm : Search(pm[1], text, dotall))
    IN  [j \in 1..Len(hits) |-> hits[j][2]]

dangerous_keywords ==
    << <<"D","R","O","P">>,
       <<"D","E","L","E","T","E">>,
       <<"T","R","U","N","C","A","T","E">>,
       <<"I","N","S","E","R","T">>,
       <<"U","P","D","A","T","E">>,
       <<"A","L","T","E","R">>,
       <<"C","R","E","A","T","E">>,
       <<"G","R","A","N","T">>,
       <<"R","E","V","O","K","E">>,
       <<"M","E","R","G","E">>,
       <<"E","X","E","C">>,
       <<"E","X","E","C","U","T","E">>,
       <<"x","p","_","c","m","d","s","h","e","l","l">>,
       <<"s","p","_","e","x","e","c","u","t","e","s","q","l">>,
       <<"B","U","L","K">>,
       <<"O","P","E","N","R","O","W","S","E","T">>,
       <<"O","P","E","N","D","A","T","A","S","O","U","R","C","E">> >>

\* the names of the keywords, as they appear in the error text
keyword_names ==
    << "DROP",
       "DELETE",
       "TRUNCATE",
       "INSERT",
       "UPDATE",
       "ALTER",
       "CREATE",
       "GRANT",
       "REVOKE",
       "MERGE",
       "EXEC",
       "EXECUTE",
       "xp_cmdshell",
       "sp_executesql",
       "BULK",
       "OPENROWSET",
       "OPENDATASOURCE" >>

injection_patterns ==
    << <<Lit(<<";">>) \o Star("any") \o Lit(<<"D","R","O","P">>),
          "Potential injection: multiple statements with DROP">>,
       <<Lit(<<";">>) \o Star("any") \o Lit(<<"D","E","L","E","T","E">>),
          "Potential injection: multiple statements with DELETE">>,
       <<Lit(<<";">>) \o Star("any") \o Lit(<<"I","N","S","E","R","T">>),
          "Potential injection: multiple statements with INSERT">>,
       <<Lit(<<";">>) \o Star("any") \o Lit(<<"U","P","D","A","T","E">>),
          "Potential injection: multiple statements with UPDATE">>,
       <<Lit(<<"-","-">>) \o Star("any") \o Lit(<<"D","R","O","P">>),
          "Potential injection: comment with DROP">>,
       <<Lit(<<"/","*">>) \o Star("any") \o Lit(<<"*","/">>),
          "Block comments not allowed for security">>,
       <<Lit(<<"U","N","I","O","N">>) \o Star("any") \o Lit(<<"S","E","L","E","C","T">>)
           \o Star("any") \o Lit(<<"F","R","O","M">>) \o Star("any")
           \o Lit(<<"i","n","f","o","r","m","a","t","i","o","n","_","s","c","h","e","m","a">>),
          "Potential schema enumeration attack">>,
       <<Lit(<<"U","N","I","O","N">>) \o Star("any") \o Lit(<<"S","E","L","E","C","T">>)
           \o Star("any") \o Lit(<<"F","R","O","M">>) \o Star("any") \o Lit(<<"p","g","_">>),
          "Potential PostgreSQL system table access">>,
       <<Lit(<<"'">>) \o Star("any") \o Lit(<<"O","R">>) \o Star("any") \o Lit(<<"'">>)
           \o Star("any") \o Lit(<<"=">>) \o Star("any") \o Lit(<<"'">>),
          "Potential OR-based injection">>,
       <<Lit(<<"'">>) \o Star("any") \o Lit(<<"A","N","D">>) \o Star("any") \o Lit(<<"'">>)
           \o Star("any") \o Lit(<<"=">>) \o Star("any") \o Lit(<<"'">>),
          "Potential AND-based injection">>,
       <<Lit(<<"1">>) \o Star("ws") \o Lit(<<"=">>) \o Star("ws") \o Lit(<<"1">>),
          "Potential tautology injection">>,
       <<Lit(<<"'">>) \o Star("any") \o Lit(<<";">>) \o Star("ws") \o Lit(<<"-","-">>),
          "Potential comment-based injection">>,
       <<Lit(<<"W","A","I","T","F","O","R">>) \o Plus("ws") \o Lit(<<"D","E","L","A","Y">>),
          "Time-based attack pattern">>,
       <<Lit(<<"B","E","N","C","H","M","A","R","K">>) \o Star("ws") \o Lit(<<"(">>),
          "MySQL benchmark attack pattern">>,
       <<Lit(<<"p","g","_","s","l","e","e","p">>) \o Star("ws") \o Lit(<<"(">>),
          "PostgreSQL sleep attack pattern">> >>

allowed_patterns ==
    << Lit(<<"S","E","L","E","C","T">>) \o Plus("ws") \o Plus("digit"),
       Lit(<<"S","E","L","E","C","T">>) \o Plus("ws") \o Lit(<<"'">>) \o Star("notquote")
           \o Lit(<<"'">>),
       Lit(<<"S","E","L","E","C","T">>) \o Plus("ws") \o Lit(<<"N","O","W","(",")">>),
       Lit(<<"S","E","L","E","C","T">>) \o Plus("ws") \o Lit(<<"C","U","R","R","E","N","T","_">>),
       Lit(<<"S","E","L","E","C","T">>) \o Plus("ws")
           \o Lit(<<"V","E","R","S","I","O","N","(",")">>) >>

simple_patterns ==
    << Lit(<<"S","E","L","E","C","T">>) \o Plus("ws") \o Lit(<<"C","O","U","N","T","(">>),
       Lit(<<"S","E","L","E","C","T">>) \o Plus("ws") \o Lit(<<"M","A","X","(">>),
       Lit(<<"S","E","L","E","C","T">>) \o Plus("ws") \o Lit(<<"M","I","N","(">>),
       Lit(<<"S","E","L","E","C","T">>) \o Plus("ws") \o Lit(<<"A","V","G","(">>),
       Lit(<<"S","E","L","E","C","T">>) \o Plus("ws") \o Lit(<<"S","U","M","(">>) >>

expensive_patterns ==
    << <<Lit(<<"S","E","L","E","C","T">>) \o Plus("ws") \o Lit(<<"*">>) \o Plus("ws")
        \o Lit(<<"F","R","O","M">>) \o Star("any") \o Lit(<<"J","O","I","N">>) \o Star("any")
        \o Lit(<<"J","O","I","N">>) \o Star("any") \o Lit(<<"J","O","I","N">>),
          "Performance warning: Multiple JOINs without specific columns may be expensive">>,
       <<Lit(<<"O","R","D","E","R">>) \o Plus("ws") \o Lit(<<"B","Y">>) \o Star("any")
           \o Lit(<<",">>) \o Star("any") \o Lit(<<",">>) \o Star("any") \o Lit(<<",">>),
          "Performance warning: Complex ORDER BY with many columns may be expensive">>,
       <<Lit(<<"G","R","O","U","P">>) \o Plus("ws") \o Lit(<<"B","Y">>) \o Star("any")
           \o Lit(<<",">>) \o Star("any") \o Lit(<<",">>) \o Star("any") \o Lit(<<",">>)
           \o Star("any") \o Lit(<<",">>),
          "Performance warning: Complex GROUP BY with many columns may be expensive">>,
       <<Lit(<<"L","I","K","E">>) \o Plus("ws") \o Lit(<<"'","%">>) \o Star("any")
           \o Lit(<<"%","'">>),
          "Performance warning: Leading wildcard LIKE patterns are expensive">>,
       <<Lit(<<"N","O","T">>) \o Plus("ws") \o Lit(<<"I","N">>) \o Plus("ws")
           \o Lit(<<"(","S","E","L","E","C","T">>),
          "Performance warning: NOT IN with subquery can be expensive - consider NOT EXISTS">> >>

limit_pattern == Lit(<<"L","I","M","I","T">>) \o Plus("ws") \o Plus("digit")


\* _is_select_only that takes SELECT as the only first word
is_select_only_no_cte(query) ==
    LET query_upper == Upper(query)
        semis == {i \in 1..Len(query_upper) : query_upper[i] = ";"}
        starts == {1} \cup {i + 1 : i \in semis}
        piece(b) ==
            LET ends == {e \in semis : e >= b}
                e == IF ends = {} THEN Len(query_upper) + 1
                     ELSE CHOOSE x \in ends : \A y \in ends : x <= y
            IN  SubSeq(query_upper, b, e - 1)
        non_empty_statements == {b \in starts : NonBlank(piece(b))}
    IN  /\ StrippedStartsWith(query_upper, <<"S","E","L","E","C","T">>)
        /\ Cardinality(non_empty_statements) <= 1

\* _is_select_only that looks at the first word only
is_select_only_first_word(query) ==
    LET query_upper == Upper(query) IN
    \/ StrippedStartsWith(query_upper, <<"S","E","L","E","C","T">>)
    \/ StrippedStartsWith(query_upper, <<"W","I","T","H">>)

\* _is_select_only: starts with SELECT or WITH, at most one non-empty statement
is_select_only(query) ==
    LET query_upper == Upper(query)
        semis == {i \in 1..Len(query_upper) : query_upper[i] = ";"}
        \* query_upper.split(';'): the pieces between consecutive semicolons
        starts == {1} \cup {i + 1 : i \in semis}
        piece(b) ==
            LET ends == {e \in semis : e >= b}
                e == IF ends = {} THEN Len(query_upper) + 1
                     ELSE CHOOSE x \in ends : \A y \in ends : x <= y
            IN  SubSeq(query_upper, b, e - 1)
        non_empty_statements == {b \in starts : NonBlank(piece(b))}
    IN  /\ \/ StrippedStartsWith(query_upper, <<"S","E","L","E","C","T">>)
           \/ StrippedStartsWith(query_upper, <<"W","I","T","H">>)
        /\ Cardinality(non_empty_statements) <= 1

\* _check_dangerous_keywords
check_dangerous_keywords(query) ==
    LET query_upper == Upper(query)
        found == SelectSeq([j \in 1..Len(dangerous_keywords) |-> j],
                     LAMBDA j : Search(WordBoundary \o Lit(dangerous_keywords[j])
                                           \o WordBoundary, query_upper, FALSE))
    IN  [j \in 1..Len(found) |->
            "Dangerous keyword detected: " \o keyword_names[found[j]]]

\* _check_injection_patterns
check_injection_patterns(query) ==
    Messages(injection_patterns, Upper(query), TRUE)

\* the list with the message when the condition holds, the empty list otherwise
ErrorIf(cond, message) == IF cond THEN <<message>> ELSE <<>>

\* _check_basic_syntax
check_basic_syntax(query) ==
    LET query_upper == Upper(query) IN
    ErrorIf(Count(query, "(") # Count(query, ")"), "Unbalanced parentheses")
    \o ErrorIf(Count(query, "'") % 2 # 0, "Unbalanced single quotes")
    \o ErrorIf(Count(query, "\"") % 2 # 0, "Unbalanced double quotes")
    \o ErrorIf(~NonBlank(query), "Empty query")
    \o ErrorIf(/\ Contains(query_upper, <<"S","E","L","E","C","T">>)
               /\ ~Contains(query_upper, <<"F","R","O","M">>)
               /\ ~AnySearch(allowed_patterns, query_upper),
               "SELECT requires FROM clause")
    \o ErrorIf(Count(query, ";") > 1,
               "Multiple semicolons detected - only one statement allowed")

\* int(digits)
RECURSIVE ToInt(_)
ToInt(digits) ==
    IF Len(digits) = 0 THEN 0
    ELSE 10 * ToInt(SubSeq(digits, 1, Len(digits) - 1))
         + (CHOOSE d \in 0..9 : ToString(d) = digits[Len(digits)])

\* re.search(r'LIMIT\s+(\d+)', text).group(1): the digits of the leftmost
\* match
limit_digits(text) ==
    LET i == CHOOSE x \in 1..Len(text) :
                 /\ MatchFrom(limit_pattern, 1, text, x, FALSE)
                 /\ \A y \in 1..(x - 1) : ~MatchFrom(limit_pattern, 1, text, y, FALSE)
        d == i + 5 + Run("ws", text, i + 5, FALSE)
    IN  SubSeq(text, d, d + Run("digit", text, d, FALSE) - 1)

\* the longest digit string int() converts (sys.int_info.default_max_str_digits
\* of CPython 3.11); on a longer one int() raises ValueError
int_max_str_digits == 4300

\* int(limit_match.group(1))
limit_value(text) == ToInt(limit_digits(text))

\* _check_resource_limits leaves by the ValueError of int(): the text has a
\* LIMIT clause whose number is longer than int() converts
limit_conversion_raises(query) ==
    LET query_upper == Upper(query) IN
    /\ Contains(query_upper, <<"L","I","M","I","T">>)
    /\ Search(limit_pattern, query_upper, FALSE)
    /\ Len(limit_digits(query_upper)) > int_max_str_digits

\* the LIMIT ceiling of _check_resource_limits
MaxLimit == 10000

\* _check_resource_limits
check_resource_limits(query) ==
    LET query_upper == Upper(query) IN
    (IF ~Contains(query_upper, <<"L","I","M","I","T">>)
     THEN ErrorIf(~AnySearch(simple_patterns, query_upper),
              "Query should include LIMIT clause to prevent excessive results")
     ELSE IF Search(limit_pattern, query_upper, FALSE)
     THEN ErrorIf(limit_value(query_upper) > MaxLimit,
              "LIMIT " \o ToString(limit_value(query_upper))
                  \o " is too high - maximum allowed is 10000")
     ELSE <<>>)
    \o Messages(expensive_patterns, query_upper, FALSE)

\* validation_checks that stops at the first check that reports an error
validation_checks_first_failure(sql_query) ==
    IF ~is_select_only(sql_query) THEN <<"Only SELECT queries are allowed">>
    ELSE IF check_dangerous_keywords(sql_query) # <<>>
    THEN check_dangerous_keywords(sql_query)
    ELSE IF check_injection_patterns(sql_query) # <<>>
    THEN check_injection_patterns(sql_query)
    ELSE IF check_basic_syntax(sql_query) # <<>>
    THEN check_basic_syntax(sql_query)
    ELSE check_resource_limits(sql_query)

\* the five checks of validate_query_node, every one run, errors in order
validation_checks(sql_query) ==
    ErrorIf(~is_select_only(sql_query), "Only SELECT queries are allowed")
    \o check_dangerous_keywords(sql_query)
    \o check_injection_patterns(sql_query)
    \o check_basic_syntax(sql_query)
    \o check_resource_limits(sql_query)

\* a statement whose LIMIT number has one digit more than int() converts
SqlHugeLimit ==
    <<"S","E","L","E","C","T"," ","a"," ","F","R","O","M"," ","t"," ",
      "L","I","M","I","T"," ">> \o [i \in 1..(int_max_str_digits + 1) |-> "1"]

\* how the body of validate_query_node ends on a non-empty statement: with
\* the errors of the five checks, or with the exception of the last check
validation_outcome(sql_query) ==
    IF limit_conversion_raises(sql_query)
    THEN [raised |-> TRUE, errors |-> <<>>]
    ELSE [raised |-> FALSE, errors |-> validation_checks(sql_query)]

\* validation_outcome of the statements the completion service answers with,
\* computed once
checked_candidates ==
    [sql \in {SqlLimit50, SqlCount, SqlDrop, SqlNoLimit, SqlHugeLimit} |->
        validation_outcome(sql)]

\* validation_outcome(sql_query), looked up when it is already computed
checks_of(sql_query) ==
    IF sql_query \in DOMAIN checked_candidates
    THEN checked_candidates[sql_query]
    ELSE validation_outcome(sql_query)

\* validate_query_node that waves a regenerated statement through
validate_query_node_lenient_on_retry(s) ==
    LET sql_query == Get(s, "generated_sql", None) IN
    IF Falsy(sql_query)
    THEN [is_safe |-> FALSE,
          validation_errors |-> <<"No SQL query to validate">>]
    ELSE IF Get(s, "generation_attempts", 0) > 1
    THEN [is_safe |-> TRUE, validation_errors |-> <<>>]
    ELSE LET outcome == checks_of(sql_query[1]) IN
         IF outcome.raised
         THEN [raised |-> "ValueError"]
         ELSE [is_safe |-> (Len(outcome.errors) = 0),
               validation_errors |-> outcome.errors]

\* validate_query_node: the state update the node returns, or the exception
\* it ends with (the node has no try block)
validate_query_node(s) ==
    LET sql_query == Get(s, "generated_sql", None) IN
    IF Falsy(sql_query)
    THEN [is_safe |-> FALSE,
          validation_errors |-> <<"No SQL query to validate">>]
    ELSE LET outcome == checks_of(sql_query[1]) IN
         IF outcome.raised
         THEN [raised |-> "ValueError"]
         ELSE [is_safe |-> (Len(outcome.errors) = 0),
               validation_errors |-> outcome.errors]

\* ---------------------------------------------------------------------------
\* Generator (generate_sql.py)
\* ---------------------------------------------------------------------------

\* statements the completion service answers with; the last one is ""
CandidateSQL == {SqlLimit50, SqlCount, SqlDrop, SqlNoLimit, <<>>}

\* what one completion call does: a structured SQLGeneration or an exception
GenerationOutcomes ==
    [kind : {"result"}, query : CandidateSQL, explanation : {"explanation"},
     confidence : {90}, tables_used : {<<"users">>}]
        \cup [kind : {"raise"}, query : {<<>>}, explanation : {""},
              confidence : {0}, tables_used : {<<>>}]

\* the Generator writing the counter back without the increment
next_attempts_stuck(generation_attempts) == generation_attempts

\* the counter value the Generator writes back
next_attempts(generation_attempts) == generation_attempts + 1

\* generate_sql_node that pays for an attempt out of max_retries
generate_sql_node_spends_retry(s, o) ==
    LET retrieved_tables == Get(s, "retrieved_tables", Some(<<>>))
        generation_attempts == Get(s, "generation_attempts", 0)
    IN  IF Falsy(retrieved_tables)
        THEN [validation_errors |->
                  <<"Cannot generate SQL without table schemas">>]
        ELSE IF o.kind = "result"
        THEN [generated_sql |-> Some(o.query),
              explanation |-> Some(o.explanation),
              confidence |-> o.confidence,
              tables_used |-> o.tables_used,
              generation_attempts |-> next_attempts(generation_attempts),
              max_retries |-> Get(s, "max_retries", 2) - 1]
        ELSE [validation_errors |-> <<"Generation error: completion failed">>,
              generation_attempts |-> next_attempts(generation_attempts)]

\* generate_sql_node: the state update the node returns
generate_sql_node(s, o) ==
    LET retrieved_tables == Get(s, "retrieved_tables", Some(<<>>))
        generation_attempts == Get(s, "generation_attempts", 0)
    IN  IF Falsy(retrieved_tables)
        THEN [validation_errors |->
                  <<"Cannot generate SQL without table schemas">>]
        ELSE IF o.kind = "result"
        THEN [generated_sql |-> Some(o.query),
              explanation |-> Some(o.explanation),
              confidence |-> o.confidence,
              tables_used |-> o.tables_used,
              generation_attempts |-> next_attempts(generation_attempts)]
        ELSE [validation_errors |-> <<"Generation error: completion failed">>,
              generation_attempts |-> next_attempts(generation_attempts)]

\* the error feedback test of the prompt, one attempt late
wants_feedback_late(previous_error, generation_attempts) ==
    ~Falsy(previous_error) /\ generation_attempts > 1

\* `if previous_error and generation_attempts > 0` of _create_generation_prompt
wants_feedback(previous_error, generation_attempts) ==
    ~Falsy(previous_error) /\ generation_attempts > 0

\* _create_generation_prompt: the base prompt carries the schemas and the
\* request; the feedback block quotes the previous error and numbers the attempt
create_generation_prompt(schema_text, user_query, previous_error, generation_attempts) ==
    [schema_text |-> schema_text,
     user_query |-> user_query,
     feedback |->
        IF wants_feedback(previous_error, generation_attempts)
        THEN Some([previous_error |-> previous_error[1],
                   attempt |-> generation_attempts + 1])
        ELSE None]

\* the prompt generate_sql_node sends to the completion service: None when
\* it returns before the call
generation_prompt(s) ==
    LET retrieved_tables == Get(s, "retrieved_tables", Some(<<>>)) IN
    IF Falsy(retrieved_tables) THEN None
    ELSE Some(create_generation_prompt(
                  \* "-- Table: {name} (Relevance: {score:.2f})\n{ddl}" per table
                  [j \in 1..Len(retrieved_tables[1]) |->
                      <<retrieved_tables[1][j][1], retrieved_tables[1][j][3],
                        retrieved_tables[1][j][2]>>],
                  s.user_query,
                  Get(s, "execution_error", None),
                  Get(s, "generation_attempts", 0)))

\* ---------------------------------------------------------------------------
\* Retriever (retrieve_schemas.py), as far as the pipeline sees it
\* ---------------------------------------------------------------------------

\* the catalog get_table_docs_for_search hands over when it falls back to the
\* raw schema: the DDL names the foreign keys, the search text is the one text
\* to embed (named by its table and facet), and the keys the raw documents do
\* not have are given as the defaults .get returns for them. Line breaks of
\* the DDL are written as spaces.
TableDocs ==
    << [name |-> <<"c","u","s","t","o","m","e","r","s">>,
        \* "CREATE TABLE public.customers ( id integer );"
        ddl |-> <<"C","R","E","A","T","E"," ","T","A","B","L","E"," ","p","u",
                "b","l","i","c",".","c","u","s","t","o","m","e","r","s"," ",
                "("," ","i","d"," ","i","n","t","e","g","e","r"," ",")",";">>,
        example_questions |-> <<>>,
        business_purpose |-> None,
        search_text |-> Some([of |-> 1, facet |-> "text", n |-> 1]),
        key_fields |-> <<>>,
        relationships |-> <<>>],
       [name |-> <<"o","r","d","e","r","s">>,
        \* "CREATE TABLE public.orders ( id integer, FOREIGN KEY (cid) REFERENCES customers(id) );"
        ddl |-> <<"C","R","E","A","T","E"," ","T","A","B","L","E"," ","p","u",
                "b","l","i","c",".","o","r","d","e","r","s"," ","("," ","i",
                "d"," ","i","n","t","e","g","e","r",","," ","F","O","R","E",
                "I","G","N"," ","K","E","Y"," ","(","c","i","d",")"," ","R",
                "E","F","E","R","E","N","C","E","S"," ","c","u","s","t","o",
                "m","e","r","s","(","i","d",")"," ",")",";">>,
        example_questions |-> <<>>,
        business_purpose |-> None,
        search_text |-> Some([of |-> 2, facet |-> "text", n |-> 1]),
        key_fields |-> <<>>,
        relationships |-> <<>>],
       [name |-> <<"o","r","d","e","r","_","i","t","e","m","s">>,
        \* "CREATE TABLE public.order_items ( id integer, FOREIGN KEY (oid) REFERENCES orders(id) );"
        ddl |-> <<"C","R","E","A","T","E"," ","T","A","B","L","E"," ","p","u",
                "b","l","i","c",".","o","r","d","e","r","_","i","t","e","m",
                "s"," ","("," ","i","d"," ","i","n","t","e","g","e","r",",",
                " ","F","O","R","E","I","G","N"," ","K","E","Y"," ","(","o",
                "i","d",")"," ","R","E","F","E","R","E","N","C","E","S"," ",
                "o","r","d","e","r","s","(","i","d",")"," ",")",";">>,
        example_questions |-> <<>>,
        business_purpose |-> None,
        search_text |-> Some([of |-> 3, facet |-> "text", n |-> 1]),
        key_fields |-> <<>>,
        relationships |-> <<>>],
       [name |-> <<"p","r","o","d","u","c","t","s">>,
        \* "CREATE TABLE public.products ( id integer );"
        ddl |-> <<"C","R","E","A","T","E"," ","T","A","B","L","E"," ","p","u",
                "b","l","i","c",".","p","r","o","d","u","c","t","s"," ","(",
                " ","i","d"," ","i","n","t","e","g","e","r"," ",")",";">>,
        example_questions |-> <<>>,
        business_purpose |-> None,
        search_text |-> Some([of |-> 4, facet |-> "text", n |-> 1]),
        key_fields |-> <<>>,
        relationships |-> <<>>],
       [name |-> <<"p","a","y","m","e","n","t","s">>,
        \* "CREATE TABLE public.payments ( id integer, FOREIGN KEY (oid) REFERENCES orders(id) );"
        ddl |-> <<"C","R","E","A","T","E"," ","T","A","B","L","E"," ","p","u",
                "b","l","i","c",".","p","a","y","m","e","n","t","s"," ","(",
                " ","i","d"," ","i","n","t","e","g","e","r",","," ","F","O",
                "R","E","I","G","N"," ","K","E","Y"," ","(","o","i","d",")",
                " ","R","E","F","E","R","E","N","C","E","S"," ","o","r","d",
                "e","r","s","(","i","d",")"," ",")",";">>,
        example_questions |-> <<>>,
        business_purpose |-> None,
        search_text |-> Some([of |-> 5, facet |-> "text", n |-> 1]),
        key_fields |-> <<>>,
        relationships |-> <<>>],
       [name |-> <<"r","e","f","u","n","d","s">>,
        \* "CREATE TABLE public.refunds ( id integer, FOREIGN KEY (pid) REFERENCES payments(id), FOREIGN KEY (oid) REFERENCES orders(id) );"
        ddl |-> <<"C","R","E","A","T","E"," ","T","A","B","L","E"," ","p","u",
                "b","l","i","c",".","r","e","f","u","n","d","s"," ","("," ",
                "i","d"," ","i","n","t","e","g","e","r",","," ","F","O","R",
                "E","I","G","N"," ","K","E","Y"," ","(","p","i","d",")"," ",
                "R","E","F","E","R","E","N","C","E","S"," ","p","a","y","m",
                "e","n","t","s","(","i","d",")",","," ","F","O","R","E","I",
                "G","N"," ","K","E","Y"," ","(","o","i","d",")"," ","R","E",
                "F","E","R","E","N","C","E","S"," ","o","r","d","e","r","s",
                "(","i","d",")"," ",")",";">>,
        example_questions |-> <<>>,
        business_purpose |-> None,
        search_text |-> Some([of |-> 6, facet |-> "text", n |-> 1]),
        key_fields |-> <<>>,
        relationships |-> <<>>],
       [name |-> <<"a","u","d","i","t","_","l","o","g">>,
        \* "CREATE TABLE public.audit_log ( id integer );"
        ddl |-> <<"C","R","E","A","T","E"," ","T","A","B","L","E"," ","p","u",
                "b","l","i","c",".","a","u","d","i","t","_","l","o","g"," ",
                "("," ","i","d"," ","i","n","t","e","g","e","r"," ",")",";">>,
        example_questions |-> <<>>,
        business_purpose |-> None,
        search_text |-> Some([of |-> 7, facet |-> "text", n |-> 1]),
        key_fields |-> <<>>,
        relationships |-> <<>>] >>

\* the catalog get_table_docs_for_search builds from the schema documentation:
\* example questions, business purpose, search text, key fields with their
\* meaning and relationships; the DDL has no foreign keys. An empty text is
\* None; the relationship of products has no related_table key (rel.get: "")
DocumentedTableDocs ==
    << [name |-> <<"c","u","s","t","o","m","e","r","s">>,
        \* "CREATE TABLE customers ( id INTEGER );"
        ddl |-> <<"C","R","E","A","T","E"," ","T","A","B","L","E"," ","c","u",
                "s","t","o","m","e","r","s"," ","("," ","i","d"," ","I","N",
                "T","E","G","E","R"," ",")",";">>,
        example_questions |-> <<
            [of |-> 1, facet |-> "question", n |-> 1]>>,
        business_purpose |-> Some([of |-> 1, facet |-> "purpose", n |-> 1]),
        search_text |-> Some([of |-> 1, facet |-> "text", n |-> 1]),
        key_fields |-> <<
            [meaning |-> Some([of |-> 1, facet |-> "field", n |-> 1])]>>,
        relationships |-> <<>>],
       [name |-> <<"o","r","d","e","r","s">>,
        \* "CREATE TABLE orders ( id INTEGER );"
        ddl |-> <<"C","R","E","A","T","E"," ","T","A","B","L","E"," ","o","r",
                "d","e","r","s"," ","("," ","i","d"," ","I","N","T","E","G",
                "E","R"," ",")",";">>,
        example_questions |-> <<
            [of |-> 2, facet |-> "question", n |-> 1],
            [of |-> 2, facet |-> "question", n |-> 2]>>,
        business_purpose |-> Some([of |-> 2, facet |-> "purpose", n |-> 1]),
        search_text |-> Some([of |-> 2, facet |-> "text", n |-> 1]),
        key_fields |-> <<
            [meaning |-> Some([of |-> 2, facet |-> "field", n |-> 1])]>>,
        relationships |-> <<
            [related_table |-> <<"c","u","s","t","o","m","e","r","s">>],
            [related_table |-> <<"o","r","d","e","r","_","i","t","e","m",
                                   "s">>]>>],
       [name |-> <<"o","r","d","e","r","_","i","t","e","m","s">>,
        \* "CREATE TABLE order_items ( id INTEGER );"
        ddl |-> <<"C","R","E","A","T","E"," ","T","A","B","L","E"," ","o","r",
                "d","e","r","_","i","t","e","m","s"," ","("," ","i","d"," ",
                "I","N","T","E","G","E","R"," ",")",";">>,
        example_questions |-> <<>>,
        business_purpose |-> Some([of |-> 3, facet |-> "purpose", n |-> 1]),
        search_text |-> Some([of |-> 3, facet |-> "text", n |-> 1]),
        key_fields |-> <<>>,
        relationships |-> <<
            [related_table |-> <<"o","r","d","e","r","s">>]>>],
       [name |-> <<"p","r","o","d","u","c","t","s">>,
        \* "CREATE TABLE products ( id INTEGER );"
        ddl |-> <<"C","R","E","A","T","E"," ","T","A","B","L","E"," ","p","r",
                "o","d","u","c","t","s"," ","("," ","i","d"," ","I","N","T",
                "E","G","E","R"," ",")",";">>,
        example_questions |-> <<
            [of |-> 4, facet |-> "question", n |-> 1]>>,
        business_purpose |-> None,
        search_text |-> Some([of |-> 4, facet |-> "text", n |-> 1]),
        key_fields |-> <<[meaning |-> None]>>,
        relationships |-> <<
            [related_table |-> <<>>]>>],
       [name |-> <<"p","a","y","m","e","n","t","s">>,
        \* "CREATE TABLE payments ( id INTEGER );"
        ddl |-> <<"C","R","E","A","T","E"," ","T","A","B","L","E"," ","p","a",
                "y","m","e","n","t","s"," ","("," ","i","d"," ","I","N","T",
                "E","G","E","R"," ",")",";">>,
        example_questions |-> <<
            [of |-> 5, facet |-> "question", n |-> 1]>>,
        business_purpose |-> None,
        search_text |-> Some([of |-> 5, facet |-> "text", n |-> 1]),
        key_fields |-> <<>>,
        relationships |-> <<
            [related_table |-> <<"o","r","d","e","r","s">>]>>],
       [name |-> <<"r","e","f","u","n","d","s">>,
        \* "CREATE TABLE refunds ( id INTEGER );"
        ddl |-> <<"C","R","E","A","T","E"," ","T","A","B","L","E"," ","r","e",
                "f","u","n","d","s"," ","("," ","i","d"," ","I","N","T","E",
                "G","E","R"," ",")",";">>,
        example_questions |-> <<>>,
        business_purpose |-> None,
        search_text |-> Some([of |-> 6, facet |-> "text", n |-> 1]),
        key_fields |-> <<
            [meaning |-> Some([of |-> 6, facet |-> "field", n |-> 1])]>>,
        relationships |-> <<
            [related_table |-> <<"p","a","y","m","e","n","t","s">>]>>],
       [name |-> <<"a","u","d","i","t","_","l","o","g">>,
        \* "CREATE TABLE audit_log ( id INTEGER );"
        ddl |-> <<"C","R","E","A","T","E"," ","T","A","B","L","E"," ","a","u",
                "d","i","t","_","l","o","g"," ","("," ","i","d"," ","I","N",
                "T","E","G","E","R"," ",")",";">>,
        example_questions |-> <<>>,
        business_purpose |-> None,
        search_text |-> Some([of |-> 7, facet |-> "text", n |-> 1]),
        key_fields |-> <<>>,
        relationships |-> <<>>] >>

\* a score of so many hundredths; scores are kept in millionths, which holds
\* every product of a cosine in tenths, a weight and up to three boosts exactly
Score(hundredths) == hundredths * 10000

\* a RetrievedTable (name, ddl, score)
Retrieved(i, hundredths) ==
    <<TableDocs[i].name, TableDocs[i].ddl, Score(hundredths)>>

\* what _semantic_search hands back: a ranked list, or None when the
\* similarity computation failed and there were no router hints
SearchResults ==
    {None, Some(<<>>), Some(<<Retrieved(1, 90)>>),
     Some(<<Retrieved(2, 120), Retrieved(1, 45)>>),
     Some(<<Retrieved(3, 80)>>)}

\* what the retrieval does: the catalog loaded and a search result, or an
\* exception of the loader
RetrievalOutcomes ==
    [kind : {"search"}, table_docs : {TableDocs}, retrieved : SearchResults]
        \cup [kind : {"raise"}, table_docs : {TableDocs}, retrieved : {None}]

\* _cosine_similarity(query_embedding, embed_query(text)), in tenths
cosine_similarity(e, text) ==
    IF text.of \in e.near THEN (IF text.facet = e.facet THEN 9 ELSE 4) ELSE 1

\* the list `scores` of one table, as the set of its values: each is a cosine
\* in tenths times its weight in tenths (2.0, 1.5, 1.0, 1.2)
facet_scores(table_doc, e) ==
    LET weighted(text, weight) == cosine_similarity(e, text) * weight * 10000
    IN  {weighted(table_doc.example_questions[j], 20) :
            j \in 1..Len(table_doc.example_questions)}
        \cup {weighted(table_doc.business_purpose[1], 15) :
                j \in 1..Len(table_doc.business_purpose)}
        \cup {weighted(table_doc.search_text[1], 10) :
                j \in 1..Len(table_doc.search_text)}
        \cup {weighted(table_doc.key_fields[j].meaning[1], 12) :
                j \in {i \in 1..Len(table_doc.key_fields) :
                          table_doc.key_fields[i].meaning # None}}

\* max(scores) if scores else 0.0
max_score(scores) ==
    IF scores = {} THEN 0
    ELSE CHOOSE m \in scores : \A other \in scores : other <= m

\* if router_hints and table_doc["name"] in router_hints: final_score *= 1.3
hint_boost(table_doc, router_hints, score) ==
    IF \E j \in 1..Len(router_hints) : router_hints[j] = table_doc.name
    THEN (score * 13) \div 10 ELSE score

RECURSIVE relationship_boost(_, _, _, _)
\* for rel in relationships: if related_table in query_lower:
\* final_score *= 1.2
relationship_boost(relationships, j, query_lower, score) ==
    IF j > Len(relationships) THEN score
    ELSE relationship_boost(relationships, j + 1, query_lower,
            IF Contains(query_lower, Lower(relationships[j].related_table))
            THEN (score * 12) \div 10 ELSE score)

\* final_score of one table: the body of the loop over table_docs
final_score(query, table_doc, router_hints, e) ==
    relationship_boost(table_doc.relationships, 1, Lower(query),
        hint_boost(table_doc, router_hints,
            max_score(facet_scores(table_doc, e))))

RECURSIVE sort_by_score(_)
\* similarities.sort(key=lambda x: x[2], reverse=True): a stable sort, so
\* entries of equal score keep their catalog order
sort_by_score(similarities) ==
    IF similarities = <<>> THEN <<>>
    ELSE LET first == CHOOSE i \in 1..Len(similarities) :
                 /\ \A j \in 1..Len(similarities) :
                       similarities[j][3] <= similarities[i][3]
                 /\ \A j \in 1..(i - 1) :
                       similarities[j][3] < similarities[i][3]
             rest == [j \in 1..(Len(similarities) - 1) |->
                         IF j < first THEN similarities[j]
                         ELSE similarities[j + 1]]
         IN  <<similarities[first]>> \o sort_by_score(rest)

\* the ranking without the slice filtered[:k]
ranked_all(query, table_docs, router_hints, e, k, threshold) ==
    LET similarities ==
            [i \in 1..Len(table_docs) |->
                <<table_docs[i].name, table_docs[i].ddl,
                  final_score(query, table_docs[i], router_hints, e)>>]
        at_least(entry) == entry[3] >= threshold
    IN  SelectSeq(sort_by_score(similarities), at_least)

\* the try block of _semantic_search: score, sort, filter, filtered[:k]
ranked(query, table_docs, router_hints, e, k, threshold) ==
    LET similarities ==
            [i \in 1..Len(table_docs) |->
                <<table_docs[i].name, table_docs[i].ddl,
                  final_score(query, table_docs[i], router_hints, e)>>]
        at_least(entry) == entry[3] >= threshold
        filtered == SelectSeq(sort_by_score(similarities), at_least)
    IN  SubSeq(filtered, 1, IF Len(filtered) < k THEN Len(filtered) ELSE k)

\* the except block with every hinted table, however many
fallback_uncut(table_docs, router_hints, k) ==
    IF Falsy(router_hints) THEN None
    ELSE LET hinted(table_doc) ==
                 \E j \in 1..Len(router_hints) :
                     router_hints[j] = table_doc.name
             fallback_results ==
                 [i \in 1..Len(SelectSeq(table_docs, hinted)) |->
                     <<SelectSeq(table_docs, hinted)[i].name,
                       SelectSeq(table_docs, hinted)[i].ddl, Score(80)>>]
         IN  Some(fallback_results)

\* the except block of _semantic_search: the hinted tables at 0.8, cut to k;
\* without hints the function falls off its end and returns None
fallback(table_docs, router_hints, k) ==
    IF Falsy(router_hints) THEN None
    ELSE LET hinted(table_doc) ==
                 \E j \in 1..Len(router_hints) :
                     router_hints[j] = table_doc.name
             fallback_results ==
                 [i \in 1..Len(SelectSeq(table_docs, hinted)) |->
                     <<SelectSeq(table_docs, hinted)[i].name,
                       SelectSeq(table_docs, hinted)[i].ddl, Score(80)>>]
         IN  Some(SubSeq(fallback_results, 1,
                         IF Len(fallback_results) < k
                         THEN Len(fallback_results) ELSE k))

\* _semantic_search(query, table_docs, router_hints) with its defaults
\* k = 5 and score_threshold = 0.3
semantic_search(query, table_docs, router_hints, e) ==
    IF e.fails THEN fallback(table_docs, router_hints, 5)
    ELSE Some(ranked(query, table_docs, router_hints, e, 5, Score(30)))

\* f"REFERENCES {retrieved_name.upper()}" in table_doc["ddl"].upper()
references_retrieved(table_doc, retrieved_name) ==
    Contains(Upper(table_doc.ddl),
             <<"R","E","F","E","R","E","N","C","E","S"," ">>
                 \o Upper(retrieved_name))

RECURSIVE expand_from_all(_, _, _, _)
\* the loop of _expand_related_tables without the `continue` that passes over
\* the tables already retrieved
expand_from_all(table_docs, i, retrieved, expanded) ==
    IF i > Len(table_docs) THEN expanded
    ELSE IF \E j \in 1..Len(retrieved) :
                references_retrieved(table_docs[i], retrieved[j][1])
    THEN expand_from_all(table_docs, i + 1, retrieved,
             Append(expanded,
                    <<table_docs[i].name, table_docs[i].ddl, Score(50)>>))
    ELSE expand_from_all(table_docs, i + 1, retrieved, expanded)

RECURSIVE expand_from(_, _, _, _)
\* the loop of _expand_related_tables over table_docs[i..]; the inner loop
\* leaves at the first retrieved name the DDL references
expand_from(table_docs, i, retrieved, expanded) ==
    IF i > Len(table_docs) THEN expanded
    ELSE LET retrieved_names == {retrieved[j][1] : j \in 1..Len(retrieved)}
         IN  IF table_docs[i].name \in retrieved_names
             THEN expand_from(table_docs, i + 1, retrieved, expanded)
             ELSE IF \E j \in 1..Len(retrieved) :
                         references_retrieved(table_docs[i], retrieved[j][1])
             THEN expand_from(table_docs, i + 1, retrieved,
                      Append(expanded, <<table_docs[i].name,
                                         table_docs[i].ddl, Score(50)>>))
             ELSE expand_from(table_docs, i + 1, retrieved, expanded)

\* _expand_related_tables
expand_related_tables(table_docs, retrieved) ==
    expand_from(table_docs, 1, retrieved, retrieved)

\* retrieve_schemas_node: the state update the node returns
retrieve_schemas_node(s, o) ==
    IF o.kind = "raise"
    THEN [retrieved_tables |-> Some(<<>>),
          validation_errors |-> <<"Schema retrieval error: loader failed">>]
    ELSE IF Falsy(o.retrieved)
    THEN [retrieved_tables |-> Some(<<>>),
          validation_errors |-> <<"No relevant tables found for query">>]
    ELSE LET retrieved == o.retrieved[1]
             expanded == expand_related_tables(o.table_docs, retrieved)
         IN  [retrieved_tables |->
                  Some(IF Len(expanded) > Len(retrieved)
                       THEN expanded ELSE retrieved),
              is_safe |-> TRUE]

\* ---------------------------------------------------------------------------
\* Pipeline state (state.py) and routing (routes.py)
\* ---------------------------------------------------------------------------

\* the channels SQLSubgraphState declares
SchemaKeys ==
    {"user_query", "router_table_hints", "retrieved_tables", "generated_sql",
     "explanation", "confidence", "tables_used", "is_safe",
     "validation_errors", "query_result", "execution_error",
     "generation_attempts", "max_retries"}

\* the channel declared with a reducer: Annotated[List[str], add]
ReducerKeys == {"validation_errors"}

\* ApplyUpdate with validation_errors declared without its reducer
ApplyUpdate_overwrite(s, u) ==
    [k \in DOMAIN s |->
        IF k \in DOMAIN u /\ k \in SchemaKeys THEN u[k] ELSE s[k]]

\* what the graph does with the dict a node returns: keys that are no channel
\* of the schema are dropped, validation_errors is old + new, every other
\* channel takes the new value
ApplyUpdate(s, u) ==
    [k \in DOMAIN s |->
        IF k \in DOMAIN u /\ k \in SchemaKeys
        THEN IF k \in ReducerKeys THEN s[k] \o u[k] ELSE u[k]
        ELSE s[k]]

\* the node ended by raising instead of returning a state update
Raised(u) == "raised" \in DOMAIN u

\* where the run is after a node step: the conditional edge decides, unless the
\* node raised, which ends sql_subgraph.invoke with the exception
after_node(u, route) == IF Raised(u) THEN "RAISED" ELSE route

\* subgraph_input of sql_query_node, for a run started with max_retries = m
\* and validation_errors = errs
subgraph_input(m, errs) ==
    [user_query |-> "total revenue per customer",
     router_table_hints |-> <<"orders">>,
     generation_attempts |-> 0,
     max_retries |-> m,
     is_safe |-> FALSE,
     validation_errors |-> errs,
     retrieved_tables |-> None,
     generated_sql |-> None,
     explanation |-> None,
     confidence |-> 0,
     tables_used |-> <<>>,
     query_result |-> None,
     execution_error |-> None]

\* route_after_retrieval that goes on whatever was retrieved
route_after_retrieval_always(s) == "generate_sql"

route_after_retrieval(s) ==
    IF Falsy(Get(s, "retrieved_tables", Some(<<>>))) THEN "END"
    ELSE "generate_sql"

\* route_after_generation that looks at generated_sql only
route_after_generation_sqlonly(s) ==
    IF Falsy(Get(s, "generated_sql", None)) THEN "END"
    ELSE "validate_query"

route_after_generation(s) ==
    IF Len(Get(s, "validation_errors", <<>>)) > 0 THEN "END"
    ELSE IF Falsy(Get(s, "generated_sql", None)) THEN "END"
    ELSE "validate_query"

\* route_after_validation without the is_safe test
route_after_validation_open(s) == "execute_query"

route_after_validation(s) ==
    IF ~Get(s, "is_safe", FALSE) THEN "END" ELSE "execute_query"

\* _is_retryable_error
is_retryable_error(error_category) ==
    IF error_category \in {"syntax", "not_found", "type", "unknown"} THEN TRUE
    ELSE IF error_category \in {"permission", "connection"} THEN FALSE
    ELSE TRUE

\* the budget test counting retries instead of attempts, with a strict bound
budget_exhausted_strict(generation_attempts, max_retries) ==
    generation_attempts - 1 > max_retries

\* the retry budget test of route_after_execution
budget_exhausted(generation_attempts, max_retries) ==
    generation_attempts >= max_retries

\* route_after_execution with the retry edge leading back to the retrieval
route_after_execution_reretrieves(s) ==
    LET execution_error == Get(s, "execution_error", None)
        generation_attempts == Get(s, "generation_attempts", 0)
        max_retries == Get(s, "max_retries", 2)
        error_category == Get(s, "error_category", "unknown")
    IN  IF Falsy(execution_error) THEN "END"
        ELSE IF budget_exhausted(generation_attempts, max_retries) THEN "END"
        ELSE IF ~is_retryable_error(error_category) THEN "END"
        ELSE "retrieve_schemas"

route_after_execution(s) ==
    LET execution_error == Get(s, "execution_error", None)
        generation_attempts == Get(s, "generation_attempts", 0)
        max_retries == Get(s, "max_retries", 2)
        error_category == Get(s, "error_category", "unknown")
    IN  IF Falsy(execution_error) THEN "END"
        ELSE IF budget_exhausted(generation_attempts, max_retries) THEN "END"
        ELSE IF ~is_retryable_error(error_category) THEN "END"
        ELSE "generate_sql"

\* ---------------------------------------------------------------------------
\* The compiled subgraph (graph.py): one action per node step, the step
\* being the node, the state update and the conditional edge after it
\* ---------------------------------------------------------------------------

\* what sql_query_node reports for the state the subgraph ended in
sql_query_report(s) ==
    IF Len(Get(s, "validation_errors", <<>>)) > 0 THEN "I encountered an error"
    ELSE IF ~Falsy(Get(s, "execution_error", None)) THEN "Query execution failed"
    ELSE "visualization"

Init ==
    /\ \E m \in 0..MaxRetriesBound :
          /\ state = subgraph_input(m, <<>>)
          /\ last_update = subgraph_input(m, <<>>)
    /\ pc = "retrieve_schemas"
    /\ last_node = "START"
    /\ last_sql = None
    /\ last_prompt = None

RetrieveSchemas ==
    /\ pc = "retrieve_schemas"
    /\ \E o \in RetrievalOutcomes :
          LET u == retrieve_schemas_node(state, o)
              s == ApplyUpdate(state, u)
          IN  /\ state' = s
              /\ last_update' = u
              /\ pc' = after_node(u, route_after_retrieval(s))
    /\ last_node' = "retrieve_schemas"
    /\ last_sql' = state.generated_sql
    /\ last_prompt' = None

GenerateSQL ==
    /\ pc = "generate_sql"
    /\ \E o \in GenerationOutcomes :
          LET u == generate_sql_node(state, o)
              s == ApplyUpdate(state, u)
          IN  /\ state' = s
              /\ last_update' = u
              /\ pc' = after_node(u, route_after_generation(s))
    /\ last_node' = "generate_sql"
    /\ last_sql' = state.generated_sql
    /\ last_prompt' = generation_prompt(state)

ValidateQuery ==
    /\ pc = "validate_query"
    /\ LET u == validate_query_node(state)
           s == ApplyUpdate(state, u)
       IN  /\ state' = s
           /\ last_update' = u
           /\ pc' = after_node(u, route_after_validation(s))
    /\ last_node' = "validate_query"
    /\ last_sql' = state.generated_sql
    /\ last_prompt' = None

ExecuteQuery ==
    /\ pc = "execute_query"
    /\ \E o \in ExecutionOutcomes :
          LET u == execute_query_node(state, o)
              s == ApplyUpdate(state, u)
          IN  /\ state' = s
              /\ last_update' = u
              /\ pc' = after_node(u, route_after_execution(s))
    /\ last_node' = "execute_query"
    /\ last_sql' = state.generated_sql
    /\ last_prompt' = None

Next == RetrieveSchemas \/ GenerateSQL \/ ValidateQuery \/ ExecuteQuery

Spec == Init /\ [][Next]_vars

\* every node invocation returns, so a run that is not at END takes its step
FairSpec == Spec /\ WF_vars(Next)

\* ---------------------------------------------------------------------------
\* Runs that start with diagnostics already in validation_errors
\* ---------------------------------------------------------------------------

\* validation_errors handed to sql_subgraph.invoke
PriorErrors == {<<>>, <<"Earlier diagnostic">>}

InitPrior ==
    /\ \E m \in 0..MaxRetriesBound : \E errs \in PriorErrors :
          /\ state = subgraph_input(m, errs)
          /\ last_update = subgraph_input(m, errs)
    /\ pc = "retrieve_schemas"
    /\ last_node = "START"
    /\ last_sql = None
    /\ last_prompt = None

PriorSpec == InitPrior /\ [][Next]_vars

\* ---------------------------------------------------------------------------
\* The node functions called on their own, on any input state
\* ---------------------------------------------------------------------------

NodeInputs ==
    {[subgraph_input(m, errs) EXCEPT
         !.retrieved_tables = rt, !.generated_sql = sql, !.is_safe = safe,
         !.generation_attempts = n, !.execution_error = err] :
        m \in 0..MaxRetriesBound, errs \in PriorErrors,
        rt \in {None, Some(<<>>), Some(<<Retrieved(1, 90)>>)},
        sql \in {None, Some(<<>>), Some(SqlLimit50), Some(SqlDrop),
                Some(SqlHugeLimit)},
        safe \in BOOLEAN, n \in 0..MaxRetriesBound,
        err \in {None, Some(MsgSyntax)}}

NodeInit ==
    /\ state \in NodeInputs
    /\ last_update = state
    /\ pc = "call"
    /\ last_node = "START"
    /\ last_sql = None
    /\ last_prompt = None

\* one call of a node function and the state update the graph applies
NodeCall(node, u, prompt) ==
    /\ pc = "call"
    /\ state' = ApplyUpdate(state, u)
    /\ last_update' = u
    /\ pc' = after_node(u, "returned")
    /\ last_node' = node
    /\ last_sql' = state.generated_sql
    /\ last_prompt' = prompt

CallRetrieve ==
    \E o \in RetrievalOutcomes :
        NodeCall("retrieve_schemas", retrieve_schemas_node(state, o), None)

CallGenerate ==
    \E o \in GenerationOutcomes :
        NodeCall("generate_sql", generate_sql_node(state, o),
                 generation_prompt(state))

CallValidate ==
    NodeCall("validate_query", validate_query_node(state), None)

CallExecute ==
    \E o \in ExecutionOutcomes :
        NodeCall("execute_query", execute_query_node(state, o), None)

NodeNext == CallRetrieve \/ CallGenerate \/ CallValidate \/ CallExecute

NodeSpec == NodeInit /\ [][NodeNext]_vars

\* ---------------------------------------------------------------------------
\* validate_query_node called on the statements a completion can answer with
\* ---------------------------------------------------------------------------

\* "SELECT "
FragSelect ==
    <<"S","E","L","E","C","T"," ">>

\* " FROM t LIMIT 5"
FragFromLimit5 ==
    <<" ","F","R","O","M"," ","t"," ","L","I","M","I","T"," ","5">>

\* "SELECT a FROM t WHERE "
FragWhere ==
    <<"S","E","L","E","C","T"," ","a"," ","F","R","O","M"," ","t"," ","W","H",
      "E","R","E"," ">>

\* " LIMIT 5"
FragLimit5 ==
    <<" ","L","I","M","I","T"," ","5">>

\* "SELECT a FROM t UNION SELECT b FROM "
FragUnion ==
    <<"S","E","L","E","C","T"," ","a"," ","F","R","O","M"," ","t"," ","U","N",
      "I","O","N"," ","S","E","L","E","C","T"," ","b"," ","F","R","O","M"," ">>

\* "SELECT a FROM t LIMIT "
FragLimit ==
    <<"S","E","L","E","C","T"," ","a"," ","F","R","O","M"," ","t"," ","L","I",
      "M","I","T"," ">>

\* the elements of a list
Range(f) == {f[j] : j \in 1..Len(f)}

\* a text in the letter cases a completion can write it in
LetterCases(text) == {text, Upper(text), Lower(text)}

\* "SELECT <keyword> FROM t LIMIT 5", the keyword in upper and lower case
KeywordStatements ==
    {FragSelect \o word \o FragFromLimit5 :
        word \in UNION {LetterCases(k) : k \in Range(dangerous_keywords)}}

\* calls of the timing functions
TimingCalls ==
    {
     \* "WAITFOR DELAY '0:0:5'"
     <<"W","A","I","T","F","O","R"," ","D","E","L","A","Y"," ","'","0",":",
       "0",":","5","'">>,
     \* "BENCHMARK(9, 2)"
     <<"B","E","N","C","H","M","A","R","K","(","9",","," ","2",")">>,
     \* "pg_sleep(5)"
     <<"p","g","_","s","l","e","e","p","(","5",")">>
    }

\* system catalogs a UNION can read
SystemTables ==
    {
     \* "information_schema.tables"
     <<"i","n","f","o","r","m","a","t","i","o","n","_","s","c","h","e","m",
       "a",".","t","a","b","l","e","s">>,
     \* "pg_catalog.pg_tables"
     <<"p","g","_","c","a","t","a","l","o","g",".","p","g","_","t","a","b",
       "l","e","s">>
    }

\* "SELECT a FROM t WHERE <call> LIMIT 5" and
\* "SELECT a FROM t UNION SELECT b FROM <system tables> LIMIT 5"
AttackStatements ==
    {FragWhere \o call \o FragLimit5 :
        call \in UNION {LetterCases(c) : c \in TimingCalls}}
    \cup
    {union \o tables \o FragLimit5 :
        union \in LetterCases(FragUnion),
        tables \in UNION {LetterCases(t) : t \in SystemTables}}

\* statements that differ in how they start and in their semicolons
StructureStatements ==
    {SqlDrop,
     \* "SELECT a FROM t; SELECT b FROM u LIMIT 5"
     <<"S","E","L","E","C","T"," ","a"," ","F","R","O","M"," ","t",";"," ",
       "S","E","L","E","C","T"," ","b"," ","F","R","O","M"," ","u"," ","L",
       "I","M","I","T"," ","5">>,
     \* "  select a from t limit 5"
     <<" "," ","s","e","l","e","c","t"," ","a"," ","f","r","o","m"," ","t",
       " ","l","i","m","i","t"," ","5">>,
     \* "WITH c AS (SELECT a FROM t) SELECT a FROM c LIMIT 5"
     <<"W","I","T","H"," ","c"," ","A","S"," ","(","S","E","L","E","C","T",
       " ","a"," ","F","R","O","M"," ","t",")"," ","S","E","L","E","C","T",
       " ","a"," ","F","R","O","M"," ","c"," ","L","I","M","I","T"," ","5">>,
     \* "DELETE FROM t"
     <<"D","E","L","E","T","E"," ","F","R","O","M"," ","t">>,
     \* "EXPLAIN SELECT a FROM t LIMIT 5"
     <<"E","X","P","L","A","I","N"," ","S","E","L","E","C","T"," ","a"," ",
       "F","R","O","M"," ","t"," ","L","I","M","I","T"," ","5">>,
     \* "SELECT a FROM t LIMIT 5;"
     <<"S","E","L","E","C","T"," ","a"," ","F","R","O","M"," ","t"," ","L",
       "I","M","I","T"," ","5",";">>,
     \* "SHOW TABLES"
     <<"S","H","O","W"," ","T","A","B","L","E","S">>,
     \* " "
     <<" ">>
    }

\* the numbers of the LIMIT clauses tried
LimitNumbers ==
    {<<"0">>, <<"1">>, <<"9","9","9","9">>, <<"1","0","0","0","0">>,
     <<"1","0","0","0","1">>, <<"2","0","0","0","0">>}

\* statements that differ in their LIMIT clauses and aggregates
LimitStatements ==
    {FragLimit \o n : n \in LimitNumbers}
    \cup
    {SqlLimit50, SqlCount, SqlNoLimit, SqlHugeLimit,
     \* "SELECT a FROM (SELECT b FROM u LIMIT 5) x LIMIT 20000"
     <<"S","E","L","E","C","T"," ","a"," ","F","R","O","M"," ","(","S","E",
       "L","E","C","T"," ","b"," ","F","R","O","M"," ","u"," ","L","I","M",
       "I","T"," ","5",")"," ","x"," ","L","I","M","I","T"," ","2","0","0",
       "0","0">>,
     \* "SELECT a FROM (SELECT b FROM u LIMIT 20000) x LIMIT 5"
     <<"S","E","L","E","C","T"," ","a"," ","F","R","O","M"," ","(","S","E",
       "L","E","C","T"," ","b"," ","F","R","O","M"," ","u"," ","L","I","M",
       "I","T"," ","2","0","0","0","0",")"," ","x"," ","L","I","M","I","T",
       " ","5">>,
     \* "SELECT a FROM t_limits"
     <<"S","E","L","E","C","T"," ","a"," ","F","R","O","M"," ","t","_","l",
       "i","m","i","t","s">>,
     \* "SELECT a FROM t WHERE note = 'no limit'"
     <<"S","E","L","E","C","T"," ","a"," ","F","R","O","M"," ","t"," ","W",
       "H","E","R","E"," ","n","o","t","e"," ","="," ","'","n","o"," ","l",
       "i","m","i","t","'">>,
     \* "SELECT a FROM t LIMIT ALL"
     <<"S","E","L","E","C","T"," ","a"," ","F","R","O","M"," ","t"," ","L",
       "I","M","I","T"," ","A","L","L">>,
     \* "SELECT a, (SELECT COUNT(*) FROM u) FROM t"
     <<"S","E","L","E","C","T"," ","a",","," ","(","S","E","L","E","C","T",
       " ","C","O","U","N","T","(","*",")"," ","F","R","O","M"," ","u",")",
       " ","F","R","O","M"," ","t">>,
     \* "SELECT MAX(a) FROM t"
     <<"S","E","L","E","C","T"," ","M","A","X","(","a",")"," ","F","R","O",
       "M"," ","t">>,
     \* "SELECT a FROM t LIMIT 5 OFFSET 2"
     <<"S","E","L","E","C","T"," ","a"," ","F","R","O","M"," ","t"," ","L",
       "I","M","I","T"," ","5"," ","O","F","F","S","E","T"," ","2">>
    }

\* statements with LIMIT 50 that start as a query and hold no denylisted
\* keyword
Limit50Statements ==
    {SqlLimit50,
     \* "SELECT a FROM t WHERE b LIKE '%x%' LIMIT 50"
     <<"S","E","L","E","C","T"," ","a"," ","F","R","O","M"," ","t"," ","W",
       "H","E","R","E"," ","b"," ","L","I","K","E"," ","'","%","x","%","'",
       " ","L","I","M","I","T"," ","5","0">>,
     \* "SELECT a FROM t WHERE 1=1 LIMIT 50"
     <<"S","E","L","E","C","T"," ","a"," ","F","R","O","M"," ","t"," ","W",
       "H","E","R","E"," ","1","=","1"," ","L","I","M","I","T"," ","5","0">>,
     \* "SELECT a LIMIT 50"
     <<"S","E","L","E","C","T"," ","a"," ","L","I","M","I","T"," ","5","0">>,
     \* "SELECT a FROM t /* c */ LIMIT 50"
     <<"S","E","L","E","C","T"," ","a"," ","F","R","O","M"," ","t"," ","/",
       "*"," ","c"," ","*","/"," ","L","I","M","I","T"," ","5","0">>,
     \* "SELECT a FROM t; SELECT b FROM u LIMIT 50"
     <<"S","E","L","E","C","T"," ","a"," ","F","R","O","M"," ","t",";"," ",
       "S","E","L","E","C","T"," ","b"," ","F","R","O","M"," ","u"," ","L",
       "I","M","I","T"," ","5","0">>,
     \* "SELECT a FROM (SELECT b FROM u LIMIT 20000) x LIMIT 50"
     <<"S","E","L","E","C","T"," ","a"," ","F","R","O","M"," ","(","S","E",
       "L","E","C","T"," ","b"," ","F","R","O","M"," ","u"," ","L","I","M",
       "I","T"," ","2","0","0","0","0",")"," ","x"," ","L","I","M","I","T",
       " ","5","0">>,
     \* "SELECT a FROM t WHERE b NOT IN (SELECT c FROM u) LIMIT 50"
     <<"S","E","L","E","C","T"," ","a"," ","F","R","O","M"," ","t"," ","W",
       "H","E","R","E"," ","b"," ","N","O","T"," ","I","N"," ","(","S","E",
       "L","E","C","T"," ","c"," ","F","R","O","M"," ","u",")"," ","L","I",
       "M","I","T"," ","5","0">>,
     \* "WITH c AS (SELECT a FROM t) SELECT a FROM c LIMIT 50"
     <<"W","I","T","H"," ","c"," ","A","S"," ","(","S","E","L","E","C","T",
       " ","a"," ","F","R","O","M"," ","t",")"," ","S","E","L","E","C","T",
       " ","a"," ","F","R","O","M"," ","c"," ","L","I","M","I","T"," ","5","0">>,
     \* "select a from t where b = 'x' limit 50"
     <<"s","e","l","e","c","t"," ","a"," ","f","r","o","m"," ","t"," ","w",
       "h","e","r","e"," ","b"," ","="," ","'","x","'"," ","l","i","m","i",
       "t"," ","5","0">>,
     \* "SELECT a FROM t WHERE b = "x" LIMIT 50;"
     <<"S","E","L","E","C","T"," ","a"," ","F","R","O","M"," ","t"," ","W",
       "H","E","R","E"," ","b"," ","="," ","\"","x","\""," ","L","I","M","I",
       "T"," ","5","0",";">>,
     \* "SELECT (a FROM t LIMIT 50"
     <<"S","E","L","E","C","T"," ","(","a"," ","F","R","O","M"," ","t"," ",
       "L","I","M","I","T"," ","5","0">>,
     \* "SELECT 1 LIMIT 50"
     <<"S","E","L","E","C","T"," ","1"," ","L","I","M","I","T"," ","5","0">>
    }

ValidatorInputs ==
    KeywordStatements \cup AttackStatements \cup StructureStatements
        \cup LimitStatements \cup Limit50Statements

ValidatorInit ==
    /\ \E sql \in ValidatorInputs :
          state = [subgraph_input(2, <<>>) EXCEPT
                      !.retrieved_tables = Some(<<Retrieved(1, 90)>>),
                      !.generated_sql = Some(sql),
                      !.generation_attempts = 1]
    /\ last_update = state
    /\ pc = "call"
    /\ last_node = "START"
    /\ last_sql = None
    /\ last_prompt = None

ValidatorSpec == ValidatorInit /\ [][CallValidate]_vars

\* ---------------------------------------------------------------------------
\* Two invocations of sql_query_node in flight at once (agent/graph.py): in
\* this specification state and pc hold one entry per run, and last_node is
\* the pair <<run, node>> of the step taken last
\* ---------------------------------------------------------------------------

Runs == {1, 2}

\* sql_subgraph.invoke with one channel store for the compiled graph
channels_of_shared(r) == 1

\* the channel store a call of sql_subgraph.invoke works on: its own, built
\* from the subgraph_input of that call
channels_of(r) == r

\* what the services answer while two runs are in flight
ConcurrentRetrievals ==
    {o \in RetrievalOutcomes :
        o.kind = "search" /\ o.retrieved \in {Some(<<>>), Some(<<Retrieved(1, 90)>>)}}

ConcurrentGenerations ==
    {o \in GenerationOutcomes : o.kind = "raise" \/ o.query \in {SqlLimit50, SqlDrop}}

ConcurrentExecutions ==
    {o \in ExecutionOutcomes :
        \/ o.kind = "rows" /\ Len(o.rows) = 1
        \/ o.kind = "raise" /\ o.msg = MsgColumnMissing}

ConcurrentInit ==
    /\ state = [r \in Runs |-> subgraph_input(2, <<>>)]
    /\ pc = [r \in Runs |-> "retrieve_schemas"]
    /\ last_node = <<1, "START">>
    /\ last_update = subgraph_input(2, <<>>)
    /\ last_sql = None
    /\ last_prompt = None

\* sql_query_node is called again for run r after its earlier call returned
Invoke(r) ==
    /\ pc[r] \in {"END", "RAISED"}
    /\ state' = [state EXCEPT ![channels_of(r)] = subgraph_input(2, <<>>)]
    /\ pc' = [pc EXCEPT ![r] = "retrieve_schemas"]
    /\ last_node' = <<r, "START">>
    /\ last_update' = subgraph_input(2, <<>>)
    /\ last_sql' = None
    /\ last_prompt' = None

\* run r takes the step of the node it stands at: the graph applies the
\* update u to the run's channels and follows the conditional edge
RunStep(r, node, u, edge) ==
    /\ state' = [state EXCEPT ![channels_of(r)] = ApplyUpdate(@, u)]
    /\ pc' = [pc EXCEPT ![r] = after_node(u, edge)]
    /\ last_node' = <<r, node>>
    /\ last_update' = u
    /\ last_sql' = None
    /\ last_prompt' = None

RunRetrieve(r) ==
    /\ pc[r] = "retrieve_schemas"
    /\ \E o \in ConcurrentRetrievals :
          LET s == state[channels_of(r)]
              u == retrieve_schemas_node(s, o)
          IN  RunStep(r, "retrieve_schemas", u,
                      route_after_retrieval(ApplyUpdate(s, u)))

RunGenerate(r) ==
    /\ pc[r] = "generate_sql"
    /\ \E o \in ConcurrentGenerations :
          LET s == state[channels_of(r)]
              u == generate_sql_node(s, o)
          IN  RunStep(r, "generate_sql", u,
                      route_after_generation(ApplyUpdate(s, u)))

RunValidate(r) ==
    /\ pc[r] = "validate_query"
    /\ LET s == state[channels_of(r)]
           u == validate_query_node(s)
       IN  RunStep(r, "validate_query", u,
                   route_after_validation(ApplyUpdate(s, u)))

RunExecute(r) ==
    /\ pc[r] = "execute_query"
    /\ \E o \in ConcurrentExecutions :
          LET s == state[channels_of(r)]
              u == execute_query_node(s, o)
          IN  RunStep(r, "execute_query", u,
                      route_after_execution(ApplyUpdate(s, u)))

ConcurrentNext ==
    \E r \in Runs :
        \/ Invoke(r)
        \/ RunRetrieve(r)
        \/ RunGenerate(r)
        \/ RunValidate(r)
        \/ RunExecute(r)

ConcurrentSpec == ConcurrentInit /\ [][ConcurrentNext]_vars

\* ---------------------------------------------------------------------------
\* execute_query_node called on a validated statement, for cursors of any
\* length around the cap and cells of every kind. Here state is the node's
\* input state together with the cursor it meets, and last_prompt is the
\* truncation warning the step logged (None when it logged none).
\* ---------------------------------------------------------------------------

\* the cursors: so many rows with a second column of one kind, or an error
Cursors ==
    {[kind |-> "rows", rows |-> Rows(n, Cell(type, 5)), msg |-> <<>>] :
        n \in {0, 1, 2, MAX_QUERY_RESULTS - 1, MAX_QUERY_RESULTS,
               MAX_QUERY_RESULTS + 1, MAX_QUERY_RESULTS + 2},
        type \in {"NoneType", "int", "bool", "str", "float", "Decimal",
                  "datetime", "bytes", "list"}}
    \cup {[kind |-> "raise", rows |-> <<>>, msg |-> MsgSyntax]}

ExecutorInit ==
    /\ \E cursor \in Cursors, safe \in BOOLEAN :
          state = [cursor |-> cursor] @@
                  [subgraph_input(2, <<>>) EXCEPT
                      !.retrieved_tables = Some(<<Retrieved(1, 90)>>),
                      !.generated_sql = Some(SqlLimit50),
                      !.generation_attempts = 1,
                      !.is_safe = safe]
    /\ last_update = state
    /\ pc = "call"
    /\ last_node = "START"
    /\ last_sql = None
    /\ last_prompt = None

\* one call of execute_query_node and the state update the graph applies
ExecutorCall ==
    /\ pc = "call"
    /\ LET u == execute_query_node(state, state.cursor)
       IN  /\ state' = ApplyUpdate(state, u)
           /\ last_update' = u
           /\ pc' = after_node(u, "returned")
           /\ last_prompt' =
                 IF Get(state, "is_safe", FALSE) /\ truncation_logged(state.cursor)
                 THEN Some("truncated") ELSE None
    /\ last_node' = "execute_query"
    /\ last_sql' = state.generated_sql

ExecutorSpec == ExecutorInit /\ [][ExecutorCall]_vars

\* ---------------------------------------------------------------------------
\* The retrieval on its own: _semantic_search, _expand_related_tables and
\* retrieve_schemas_node called on any query, hints and embedding service.
\* Here state is the node's input state with the catalog and the embedding
\* service it meets.
\* ---------------------------------------------------------------------------

\* what the node is called with: the catalog loaded; the question asked; the router's hints
\* (none, one table, a table and a name the catalog does not have, every
\* table of the catalog); and the embedding service as the search sees it: it
\* fails, or it places the texts of the tables in `near` close to the query,
\* closest in one facet
SearchInputs ==
    [table_docs : {TableDocs, DocumentedTableDocs},
     user_query :
       { \* "total revenue"
         <<"t","o","t","a","l"," ","r","e","v","e","n","u","e">>,
         \* "Orders per CUSTOMERS"
         <<"O","r","d","e","r","s"," ","p","e","r"," ","C","U","S","T","O","M",
         "E","R","S">>,
         \* "customers and order_items of orders"
         <<"c","u","s","t","o","m","e","r","s"," ","a","n","d"," ","o","r","d",
         "e","r","_","i","t","e","m","s"," ","o","f"," ","o","r","d","e","r","s">> },
     router_table_hints :
       { <<>>,
         <<TableDocs[2].name>>,
         <<TableDocs[1].name, <<"x">>>>,
         [i \in 1..Len(TableDocs) |-> TableDocs[i].name] },
     embedding :
       [fails : BOOLEAN,
        near : {{}, {1}, {2}, {4}, {7}, {1, 2}, {2, 3, 5}, {3, 4, 6},
                {1, 2, 3, 4, 5, 6}, {1, 2, 3, 4, 5, 6, 7}},
        facet : {"question", "purpose", "text", "field"}]]

SearchInit ==
    /\ \E input \in SearchInputs :
          state = [table_docs |-> input.table_docs,
                   embedding |-> input.embedding] @@
                  [subgraph_input(2, <<>>) EXCEPT
                      !.user_query = input.user_query,
                      !.router_table_hints = input.router_table_hints]
    /\ last_update = state
    /\ pc = "call"
    /\ last_node = "START"
    /\ last_sql = None
    /\ last_prompt = None

\* retrieved = _semantic_search(user_query, table_docs, router_hints)
CallSemanticSearch ==
    /\ pc = "call"
    /\ last_update' =
          [retrieved |-> semantic_search(state.user_query, state.table_docs,
                             state.router_table_hints, state.embedding)]
    /\ pc' = "searched"
    /\ last_node' = "_semantic_search"
    /\ UNCHANGED <<state, last_sql, last_prompt>>

\* expanded = _expand_related_tables(table_docs, retrieved)
CallExpandRelatedTables ==
    /\ pc = "searched"
    /\ ~Falsy(last_update.retrieved)
    /\ last_update' =
          [retrieved |-> last_update.retrieved,
           expanded |-> expand_related_tables(state.table_docs,
                                              last_update.retrieved[1])]
    /\ pc' = "expanded"
    /\ last_node' = "_expand_related_tables"
    /\ UNCHANGED <<state, last_sql, last_prompt>>

\* retrieve_schemas_node on the input state, and the edge taken after it
CallRetrieveSchemas ==
    /\ pc = "call"
    /\ LET o == [kind |-> "search", table_docs |-> state.table_docs,
                 retrieved |-> semantic_search(state.user_query, state.table_docs,
                                   state.router_table_hints, state.embedding)]
           u == retrieve_schemas_node(state, o)
           s == ApplyUpdate(state, u)
       IN  /\ state' = s
           /\ last_update' = u
           /\ pc' = after_node(u, route_after_retrieval(s))
    /\ last_node' = "retrieve_schemas"
    /\ UNCHANGED <<last_sql, last_prompt>>

SearchNext ==
    \/ CallSemanticSearch
    \/ CallExpandRelatedTables
    \/ CallRetrieveSchemas

SearchSpec == SearchInit /\ [][SearchNext]_vars

\* ---------------------------------------------------------------------------
\* LLMFactory.get_llm called from several threads (infrastructure/llm/
\* factory.py): in this specification state is the factory (its _clients
\* cache and what was constructed), pc and last_update hold each thread's
\* position and locals, last_node is the pair <<thread, line>> of the last step
\* ---------------------------------------------------------------------------

\* how many clients are constructed in a behaviour at most
MaxClients == 3

Threads == {1, 2}

\* the model keys get_llm is called with (ModelType.FAST, ModelType.SMART)
ModelKeys == {"fast", "smart"}

FactoryInit ==
    /\ state = [clients |-> [k \in ModelKeys |-> None],
                made |-> [k \in ModelKeys |-> {}],
                cleared |-> FALSE]
    /\ pc = [t \in Threads |-> "idle"]
    /\ last_update = [t \in Threads |-> [model_key |-> "fast", client |-> None]]
    /\ last_node = <<1, "START">>
    /\ last_sql = None
    /\ last_prompt = None

\* a thread's step: its new position and locals
ThreadStep(t, line, position, locals) ==
    /\ pc' = [pc EXCEPT ![t] = position]
    /\ last_update' = [last_update EXCEPT ![t] = locals]
    /\ last_node' = <<t, line>>
    /\ last_sql' = None
    /\ last_prompt' = None

\* get_llm is entered: model_key = model.value
CallGetLlm(t) ==
    /\ pc[t] \in {"idle", "returned"}
    /\ \E k \in ModelKeys :
          ThreadStep(t, "call", "check", [model_key |-> k, client |-> None])
    /\ UNCHANGED state

\* if model_key in self._clients: return self._clients[model_key]
CheckCache(t) ==
    /\ pc[t] = "check"
    /\ LET cached == state.clients[last_update[t].model_key] IN
       IF cached # None
       THEN ThreadStep(t, "check", "returned",
                       [last_update[t] EXCEPT !.client = cached])
       ELSE ThreadStep(t, "check", "create", last_update[t])
    /\ UNCHANGED state

\* client = self._create_client(model_config): a new client object
CreateClient(t) ==
    /\ pc[t] = "create"
    /\ LET made_so_far == UNION {state.made[k] : k \in ModelKeys}
           k == last_update[t].model_key
           client == Cardinality(made_so_far) + 1
       IN  /\ Cardinality(made_so_far) < MaxClients
           /\ state' = [state EXCEPT !.made[k] = @ \cup {client}]
           /\ ThreadStep(t, "create", "store",
                         [last_update[t] EXCEPT !.client = Some(client)])

\* self._clients[model_key] = client; return client
StoreClient(t) ==
    /\ pc[t] = "store"
    /\ state' = [state EXCEPT
                    !.clients[last_update[t].model_key] = last_update[t].client]
    /\ ThreadStep(t, "store", "returned", last_update[t])

\* clear_cache (also the tail of reload_settings): self._clients.clear()
ClearCache(t) ==
    /\ pc[t] \in {"idle", "returned"}
    /\ state' = [state EXCEPT !.clients = [k \in ModelKeys |-> None],
                              !.cleared = TRUE]
    /\ ThreadStep(t, "clear", "idle", last_update[t])

FactoryNext ==
    \E t \in Threads :
        \/ CallGetLlm(t)
        \/ CheckCache(t)
        \/ CreateClient(t)
        \/ StoreClient(t)
        \/ ClearCache(t)

FactorySpec == FactoryInit /\ [][FactoryNext]_vars

\* ---------------------------------------------------------------------------
\* DataSourceFactory (infrastructure/datasource/factory.py): its construction
\* step by step and its calls, each made by a thread that holds the factory.
\* Here state is the class and its one instance (with what was ever
\* registered, constructed and initialised), pc is each thread's position,
\* last_update each thread's last call and its result, last_node the pair
\* <<thread, step>> of the last step.
\* ---------------------------------------------------------------------------

\* how many engines create_engine makes in a behaviour at most
MaxEngines == 3

\* the datasource names used in the calls
DatasourceNames == {"mysql.primary", "analytics"}

DataSourceInit ==
    /\ state = [instance |-> FALSE, initialized |-> None,
                engines |-> [n \in DatasourceNames |-> None],
                session_makers |-> [n \in DatasourceNames |-> None],
                configurations |-> {},
                registered |-> {}, initializations |-> 0, created |-> 0]
    /\ pc = [t \in Threads |-> "idle"]
    /\ last_update = [t \in Threads |->
                         [call |-> "none", name |-> None, result |-> "none", engine |-> None]]
    /\ last_node = <<1, "START">>
    /\ last_sql = None
    /\ last_prompt = None

\* a step of thread t that leaves it at `position`: the call, its argument,
\* what it returned or raised and the engine behind what it returned
FactoryStep(t, call, name, position, result, engine) ==
    /\ pc' = [pc EXCEPT ![t] = position]
    /\ last_update' = [last_update EXCEPT ![t] =
                          [call |-> call, name |-> name, result |-> result, engine |-> engine]]
    /\ last_node' = <<t, call>>
    /\ last_sql' = None
    /\ last_prompt' = None

\* DataSourceFactory(): __new__ tests cls._instance without the lock
NewCheck(t) ==
    /\ pc[t] \in {"idle", "ready"}
    /\ FactoryStep(t, "__new__", None, IF state.instance THEN "init" ELSE "lock", "none", None)
    /\ UNCHANGED state

\* with cls._lock: the second test; the instance is made with
\* _initialized = False
NewLocked(t) ==
    /\ pc[t] = "lock"
    /\ state' = IF state.instance THEN state
                ELSE [state EXCEPT !.instance = TRUE,
                                   !.initialized = Some(FALSE)]
    /\ FactoryStep(t, "__new__ locked", None, "init", "none", None)

\* __init__: if not getattr(self, "_initialized", False)
InitCheck(t) ==
    /\ pc[t] = "init"
    /\ FactoryStep(t, "__init__", None,
                   IF state.initialized = Some(TRUE) THEN "ready"
                   ELSE "initializing", "none", None)
    /\ UNCHANGED state

\* __init__: the three dictionaries are made empty, _initialized = True
InitRegistry(t) ==
    /\ pc[t] = "initializing"
    /\ state' = [state EXCEPT
                    !.engines = [n \in DatasourceNames |-> None],
                    !.session_makers = [n \in DatasourceNames |-> None],
                    !.configurations = {},
                    !.initialized = Some(TRUE),
                    !.initializations = @ + 1]
    /\ FactoryStep(t, "__init__ registry", None, "ready", "none", None)

\* register_datasource(name, ...)
RegisterDatasource(t) ==
    /\ pc[t] = "ready"
    /\ \E name \in DatasourceNames :
          /\ state' = [state EXCEPT !.configurations = @ \cup {name},
                                    !.registered = @ \cup {name}]
          /\ FactoryStep(t, "register_datasource", Some(name), "ready", "none", None)

\* get_engine that keeps the engine and makes no session maker for it
get_engine_without_session_maker(f, datasource_name, created_ok) ==
    IF datasource_name \notin f.configurations
    THEN [factory |-> f, result |-> "ValueError", engine |-> None]
    ELSE IF f.engines[datasource_name] # None
    THEN [factory |-> f, result |-> "engine", engine |-> f.engines[datasource_name]]
    ELSE IF ~created_ok
    THEN [factory |-> f, result |-> "create_engine raised", engine |-> None]
    ELSE [factory |-> [f EXCEPT !.engines[datasource_name] = Some(f.created + 1),
                                !.created = @ + 1],
          result |-> "engine", engine |-> Some(f.created + 1)]

\* get_engine(datasource_name) on factory f, create_engine succeeding or not:
\* the factory afterwards and what the call returns or raises
get_engine(f, datasource_name, created_ok) ==
    IF datasource_name \notin f.configurations
    THEN [factory |-> f, result |-> "ValueError", engine |-> None]
    ELSE IF f.engines[datasource_name] # None
    THEN [factory |-> f, result |-> "engine", engine |-> f.engines[datasource_name]]
    ELSE IF ~created_ok
    THEN [factory |-> f, result |-> "create_engine raised", engine |-> None]
    ELSE [factory |-> [f EXCEPT !.engines[datasource_name] = Some(f.created + 1),
                                !.session_makers[datasource_name] = Some(f.created + 1),
                                !.created = @ + 1],
          result |-> "engine", engine |-> Some(f.created + 1)]

\* get_engine called by thread t
GetEngine(t) ==
    /\ pc[t] = "ready"
    /\ state.created < MaxEngines
    /\ \E name \in DatasourceNames, created_ok \in BOOLEAN :
          LET got == get_engine(state, name, created_ok)
          IN  /\ state' = got.factory
              /\ FactoryStep(t, "get_engine", Some(name), "ready", got.result, got.engine)

\* get_session(datasource_name): a session of the session maker, which
\* get_engine makes when it is not there
GetSession(t) ==
    /\ pc[t] = "ready"
    /\ state.created < MaxEngines
    /\ \E name \in DatasourceNames, created_ok \in BOOLEAN :
          IF name \notin state.configurations
          THEN /\ UNCHANGED state
               /\ FactoryStep(t, "get_session", Some(name), "ready", "ValueError", None)
          ELSE LET got == IF state.session_makers[name] = None
                          THEN get_engine(state, name, created_ok)
                          ELSE [factory |-> state, result |-> "engine", engine |-> None]
               IN  /\ state' = got.factory
                   /\ IF got.result # "engine"
                      THEN FactoryStep(t, "get_session", Some(name), "ready", got.result, None)
                      ELSE IF got.factory.session_makers[name] = None
                      THEN FactoryStep(t, "get_session", Some(name), "ready", "KeyError", None)
                      ELSE FactoryStep(t, "get_session", Some(name), "ready", "session",
                                       got.factory.session_makers[name])

\* close_all_connections
CloseAllConnections(t) ==
    /\ pc[t] = "ready"
    /\ state' = [state EXCEPT
                    !.engines = [n \in DatasourceNames |-> None],
                    !.session_makers = [n \in DatasourceNames |-> None]]
    /\ FactoryStep(t, "close_all_connections", None, "ready", "none", None)

\* the steps the threads in `threads` take
DataSourceNext(threads) ==
    \E t \in threads :
        \/ NewCheck(t)
        \/ NewLocked(t)
        \/ InitCheck(t)
        \/ InitRegistry(t)
        \/ RegisterDatasource(t)
        \/ GetEngine(t)
        \/ GetSession(t)
        \/ CloseAllConnections(t)

\* one caller
DataSourceSpec == DataSourceInit /\ [][DataSourceNext({1})]_vars

\* callers in several threads
SharedDataSourceSpec == DataSourceInit /\ [][DataSourceNext(Threads)]_vars

\* ---------------------------------------------------------------------------
\* Properties
\* ---------------------------------------------------------------------------

IsPrefix(a, b) == Len(a) <= Len(b) /\ SubSeq(b, 1, Len(a)) = a

\* the category the Executor put in its last return value
ProducedCategory == Get(last_update, "error_category", "unknown")

\* C1: when a run has ended, generation_attempts is at most max_retries + 1.
AttemptsWithinBudget ==
    pc = "END" => state.generation_attempts <= state.max_retries + 1

\* a run that ended with exactly max_retries + 1 generations
AttemptsAtBudget ==
    /\ pc = "END"
    /\ last_node = "execute_query"
    /\ state.generation_attempts = state.max_retries + 1

\* C2: after an execution failure that the Executor classified permission or
\* connection the run is at END, never back at generate_sql.
NonRetryableTerminates ==
    (/\ last_node = "execute_query"
     /\ "error_category" \in DOMAIN last_update
     /\ last_update.error_category \in {"permission", "connection"})
        => pc = "END"

\* C3: after ExecuteQuery the run goes to generate_sql exactly when the
\* execution failed, generation_attempts < max_retries and the category of the
\* failure is syntax, not_found, type or unknown; otherwise it is at END.
RetryExactlyWhenRetryable ==
    last_node = "execute_query" =>
        /\ pc \in {"generate_sql", "END"}
        /\ pc = "generate_sql" <=>
              (/\ state.execution_error # None
               /\ state.generation_attempts < state.max_retries
               /\ ProducedCategory \in {"syntax", "not_found", "type", "unknown"})

\* C4: every ExecuteQuery step directly follows a ValidateQuery step that
\* returned is_safe = true for the very SQL the Executor reads, and a
\* ValidateQuery step that returned is_safe = false leaves the run at END.
ValidationGate ==
    /\ []((last_node = "validate_query" /\ ~last_update.is_safe) => pc = "END")
    /\ [][last_node' = "execute_query" =>
            (/\ last_node = "validate_query"
             /\ last_update.is_safe
             /\ state.is_safe
             /\ state.generated_sql # None
             /\ last_sql = state.generated_sql
             /\ validation_checks(state.generated_sql[1]) = <<>>)]_vars

\* an execution in a retry iteration
ExecutedOnRetry ==
    /\ last_node = "execute_query"
    /\ state.generation_attempts >= 2

\* C5: at END exactly one holds: a result set with no error of either kind,
\* validation errors with no execution error, or an execution error with no
\* validation errors.
TerminalOutputExclusive ==
    pc = "END" =>
        \/ (/\ state.query_result # None
            /\ state.execution_error = None
            /\ state.validation_errors = <<>>)
        \/ (/\ state.validation_errors # <<>>
            /\ state.execution_error = None)
        \/ (/\ state.execution_error # None
            /\ state.validation_errors = <<>>)

\* C6: every run reaches END.
RunTerminates == <>(pc = "END")

\* a run that ended because every attempt of its budget failed to execute
BudgetSpentOnFailures ==
    /\ pc = "END"
    /\ last_node = "execute_query"
    /\ state.execution_error # None
    /\ state.max_retries >= 2
    /\ state.generation_attempts = state.max_retries

\* C7: every step leaves the old validation_errors as a prefix of the new one.
ValidationErrorsAppendOnly ==
    [][IsPrefix(state.validation_errors, state'.validation_errors)]_vars

\* a Generator failure recorded after an entry that was already there
DiagnosticAppended ==
    /\ last_node = "generate_sql"
    /\ Len(state.validation_errors) = 2
    /\ state.validation_errors[1] = "Earlier diagnostic"

\* C8: generation_attempts never decreases, only the Generator changes it, and
\* every call of generate_sql_node adds exactly one to it.
AttemptsCountGeneratorCalls ==
    [][/\ state'.generation_attempts >= state.generation_attempts
       /\ last_node' # "generate_sql" =>
              state'.generation_attempts = state.generation_attempts
       /\ last_node' = "generate_sql" =>
              state'.generation_attempts = state.generation_attempts + 1]_vars

\* C9: a step of RetrieveSchemas, GenerateSQL or ExecuteQuery leaves is_safe
\* as it was.
OnlyValidatorWritesIsSafe ==
    [][last_node' \in {"retrieve_schemas", "generate_sql", "execute_query"} =>
            state'.is_safe = state.is_safe]_vars

\* C10: an execution that fails with "permission denied for relation orders"
\* is classified permission and the run is at END right after it.
PermissionDeniedTerminates ==
    (/\ last_node = "execute_query"
     /\ state.execution_error = Some(MsgPermissionRelation))
        => (ProducedCategory = "permission" /\ pc = "END")


\* the step taken on the retry edge ExecuteQuery -> GenerateSQL
RetryStep ==
    /\ last_node = "execute_query"
    /\ pc = "generate_sql"
    /\ last_node' = "generate_sql"

\* C11: an execution failure with "ERROR: column revenue does not exist" is
\* classified not_found, and the Generator step on the retry edge is called
\* with attempts > 0 and sends a prompt whose corrective block quotes exactly
\* the execution_error the failed execution returned.
RetryPromptQuotesError ==
    /\ [](( /\ last_node = "execute_query"
            /\ Get(last_update, "execution_error", None) = Some(MsgColumnMissing))
          => ProducedCategory = "not_found")
    /\ [][RetryStep =>
            /\ state.generation_attempts > 0
            /\ ~Falsy(last_update.execution_error)
            /\ last_prompt' # None
            /\ last_prompt'[1].feedback =
                  Some([previous_error |-> last_update.execution_error[1],
                        attempt |-> state.generation_attempts + 1])]_vars

\* a retry generation whose prompt quotes the missing-column error
RetryPromptSent ==
    /\ last_node = "generate_sql"
    /\ state.generation_attempts = 2
    /\ last_prompt # None
    /\ last_prompt[1].feedback =
          Some([previous_error |-> MsgColumnMissing, attempt |-> 2])

\* C12: the step after RetrieveSchemas is GenerateSQL exactly when retrieval
\* returned at least one table; otherwise the run has ended there with
\* generation_attempts = 0, no generated_sql, and the single diagnostic of the
\* retrieval ("No relevant tables found for query" when nothing was found).
RetrievalGate ==
    last_node = "retrieve_schemas" =>
        LET returned == last_update.retrieved_tables[1] IN
        /\ pc = "generate_sql" <=> Len(returned) >= 1
        /\ pc # "generate_sql" =>
              /\ pc = "END"
              /\ state.generation_attempts = 0
              /\ state.generated_sql = None
              /\ state.validation_errors \in
                    {<<"No relevant tables found for query">>,
                     <<"Schema retrieval error: loader failed">>}

\* a run that ended at RetrieveSchemas because nothing was retrieved
EndedWithoutTables ==
    /\ last_node = "retrieve_schemas"
    /\ pc = "END"
    /\ state.validation_errors = <<"No relevant tables found for query">>
    /\ state.generation_attempts = 0

\* the Generator's last return value carries SQL text that is not empty
GenerationSucceeded ==
    /\ "generated_sql" \in DOMAIN last_update
    /\ last_update.generated_sql # None
    /\ last_update.generated_sql[1] # <<>>

\* C13: the step after GenerateSQL is ValidateQuery exactly when the generation
\* returned non-empty SQL and added no validation_errors; a failed completion
\* is returned as a state update, counts as one more attempt, and ends the
\* run: no step of any stage follows it.
GenerationGate ==
    /\ [](last_node = "generate_sql" =>
            /\ ~Raised(last_update)
            /\ pc = "validate_query" <=>
                  /\ GenerationSucceeded
                  /\ "validation_errors" \notin DOMAIN last_update)
    /\ [][( /\ last_node' = "generate_sql"
            /\ "generated_sql" \notin DOMAIN last_update')
          => /\ state'.generation_attempts = state.generation_attempts + 1
             /\ Len(state'.validation_errors) = Len(state.validation_errors) + 1
             /\ pc' = "END"]_vars
    /\ [][pc # "END"]_vars

\* a retry generation whose completion failed: the run ended with the SQL of
\* the attempt before still in the state
GenerationFailedOnRetry ==
    /\ last_node = "generate_sql"
    /\ pc = "END"
    /\ state.generation_attempts = 2
    /\ state.generated_sql # None
    /\ state.validation_errors = <<"Generation error: completion failed">>

\* C14: whatever state a stage is called on, it ends by returning a state
\* update, never by raising; a failure inside it is reported in
\* validation_errors or execution_error.
NoStageRaises ==
    last_node # "START" => (~Raised(last_update) /\ pc # "RAISED")

\* the statement validate_query_node was called on
ValidatedSql == state.generated_sql[1]

\* validate_query_node has returned its verdict on a statement
Validated ==
    /\ last_node = "validate_query"
    /\ ~Raised(last_update)
    /\ ~Falsy(state.generated_sql)

\* the verdict was: safe
Accepted == Validated /\ last_update.is_safe

\* C15: on a non-empty statement the Validator runs every check: the errors
\* it returns are the errors of the five checks one after the other, and
\* is_safe is true exactly when there is none.
AllChecksReported ==
    Validated =>
        /\ last_update.validation_errors =
              ErrorIf(~is_select_only(ValidatedSql),
                      "Only SELECT queries are allowed")
              \o check_dangerous_keywords(ValidatedSql)
              \o check_injection_patterns(ValidatedSql)
              \o check_basic_syntax(ValidatedSql)
              \o check_resource_limits(ValidatedSql)
        /\ last_update.is_safe <=> last_update.validation_errors = <<>>

\* a verdict that carries the errors of all five checks
FiveChecksFailed ==
    /\ Validated
    /\ ~is_select_only(ValidatedSql)
    /\ check_dangerous_keywords(ValidatedSql) # <<>>
    /\ check_injection_patterns(ValidatedSql) # <<>>
    /\ check_basic_syntax(ValidatedSql) # <<>>
    /\ check_resource_limits(ValidatedSql) # <<>>
    /\ Len(last_update.validation_errors) = 5

\* a pattern with its letters in lower case, to look for it in lowered text
CaseFold(pat) ==
    [k \in 1..Len(pat) |->
        IF pat[k].t = "lit" THEN [pat[k] EXCEPT !.c = LowerChar(@)]
        ELSE pat[k]]

\* the text holds the pattern in some letter case
FoundAnyCase(pat, text, dotall) == Search(CaseFold(pat), Lower(text), dotall)

\* the errors of the timing-attack and schema-enumeration patterns
AttackMessages ==
    {"Time-based attack pattern", "MySQL benchmark attack pattern",
     "PostgreSQL sleep attack pattern", "Potential schema enumeration attack",
     "Potential PostgreSQL system table access"}

\* C16: a statement that holds, in any letter case, WAITFOR DELAY, BENCHMARK(,
\* pg_sleep( or UNION ... SELECT ... FROM information_schema / pg_ is judged
\* unsafe and the error of that pattern is among the returned errors.
AttackPatternsRejected ==
    Validated =>
        \A j \in 1..Len(injection_patterns) :
            ( /\ injection_patterns[j][2] \in AttackMessages
              /\ FoundAnyCase(injection_patterns[j][1], ValidatedSql, TRUE) )
            => /\ ~last_update.is_safe
               /\ injection_patterns[j][2] \in Range(last_update.validation_errors)

\* C17: a statement that holds a keyword of the denylist as a whole word, in
\* any letter case, is judged unsafe with the error
\* "Dangerous keyword detected: <keyword>".
DenylistRejected ==
    Validated =>
        \A j \in 1..Len(dangerous_keywords) :
            FoundAnyCase(WordBoundary \o Lit(dangerous_keywords[j])
                             \o WordBoundary, ValidatedSql, FALSE)
            => /\ ~last_update.is_safe
               /\ ("Dangerous keyword detected: " \o keyword_names[j])
                      \in Range(last_update.validation_errors)

\* the text has more than one non-empty statement: text other than blanks
\* stands on both sides of some semicolon
SeveralStatements(text) ==
    \E j \in 1..Len(text) :
        /\ text[j] = ";"
        /\ \E i \in 1..(j - 1) : text[i] \notin Whitespace \cup {";"}
        /\ \E k \in (j + 1)..Len(text) : text[k] \notin Whitespace \cup {";"}

\* the first word of the text, in any letter case, begins with SELECT or WITH
StartsAsQuery(text) ==
    \/ StrippedStartsWith(Lower(text), <<"s","e","l","e","c","t">>)
    \/ StrippedStartsWith(Lower(text), <<"w","i","t","h">>)

\* the errors that report more than one statement
MultiStatementErrors ==
    {"Only SELECT queries are allowed",
     "Multiple semicolons detected - only one statement allowed",
     "Potential injection: multiple statements with DROP"}

\* C18: "SELECT name FROM users; DROP TABLE users;" is judged unsafe, with
\* "Dangerous keyword detected: DROP" and a multi-statement error among the
\* errors; and every statement that has more than one non-empty
\* semicolon-delimited part, or does not start with SELECT or WITH, is judged
\* unsafe.
OnlySingleQueriesAccepted ==
    Validated =>
        /\ ValidatedSql = SqlDrop =>
              /\ ~last_update.is_safe
              /\ "Dangerous keyword detected: DROP"
                     \in Range(last_update.validation_errors)
              /\ Range(last_update.validation_errors) \cap MultiStatementErrors
                     # {}
        /\ (SeveralStatements(ValidatedSql) \/ ~StartsAsQuery(ValidatedSql))
              => ~last_update.is_safe

\* two SELECT statements in one text, rejected for that alone
TwoSelectsRejected ==
    /\ Validated
    /\ SeveralStatements(ValidatedSql)
    /\ StartsAsQuery(ValidatedSql)
    /\ last_update.validation_errors = <<"Only SELECT queries are allowed">>

\* a numeric LIMIT clause (the word LIMIT, blanks, digits) starts at text[i]
LimitClauseAt(text, i) ==
    MatchFrom(WordBoundary \o limit_pattern, 1, Upper(text), i, FALSE)

\* the number of the LIMIT clause that starts at text[i]
LimitNumberAt(text, i) ==
    LET d == i + 5 + Run("ws", text, i + 5, FALSE)
    IN  ToInt(SubSeq(text, d, d + Run("digit", text, d, FALSE) - 1))

\* the positions of the numeric LIMIT clauses of the text
LimitClauses(text) == {i \in 1..Len(text) : LimitClauseAt(text, i)}

\* the statement is SELECT <aggregate>( ... from its first word on
TopLevelAggregate(text) ==
    \E i \in 1..Len(text) :
        /\ \A j \in 1..(i - 1) : text[j] \in Whitespace
        /\ \E p \in Range(simple_patterns) :
              MatchFrom(p, 1, Upper(text), i, FALSE)

\* C19: a statement the Validator accepts has a numeric LIMIT clause of at
\* most 10000 or is an aggregate at top level; the text LIMIT inside an
\* identifier, or an aggregate in a subquery, does not exempt it.
AcceptedIsBounded ==
    Accepted =>
        \/ \E i \in LimitClauses(ValidatedSql) :
              LimitNumberAt(ValidatedSql, i) <= MaxLimit
        \/ TopLevelAggregate(ValidatedSql)

\* C20: "SELECT a FROM t LIMIT n" is accepted when n <= 10000 and rejected
\* with the limit error when n >= 10001; and a statement with several LIMIT
\* clauses is rejected when any of them is above 10000.
LimitBoundary ==
    Validated =>
        /\ \A n \in LimitNumbers :
              ValidatedSql = FragLimit \o n =>
                  /\ last_update.is_safe <=> ToInt(n) <= MaxLimit
                  /\ ~last_update.is_safe =>
                        last_update.validation_errors =
                            <<"LIMIT " \o ToString(ToInt(n))
                                \o " is too high - maximum allowed is 10000">>
        /\ (\E i \in LimitClauses(ValidatedSql) :
                LimitNumberAt(ValidatedSql, i) > MaxLimit)
              => ~last_update.is_safe

\* parentheses, single quotes and double quotes are balanced
Balanced(text) ==
    /\ Count(text, "(") = Count(text, ")")
    /\ Count(text, "'") % 2 = 0
    /\ Count(text, "\"") % 2 = 0

\* the text holds no keyword of the denylist as a whole word, in any case
NoDenylistedWord(text) ==
    \A j \in 1..Len(dangerous_keywords) :
        ~FoundAnyCase(WordBoundary \o Lit(dangerous_keywords[j])
                          \o WordBoundary, text, FALSE)

\* balanced, with LIMIT 50, starting with SELECT or WITH, no denylisted word
RoundTripShape(text) ==
    /\ Balanced(text)
    /\ Contains(Upper(text), <<"L","I","M","I","T"," ","5","0">>)
    /\ StartsAsQuery(text)
    /\ NoDenylistedWord(text)

\* what the other checks ask of a statement: one statement with at most one
\* semicolon, a FROM clause or a constant select, no injection pattern, no
\* expensive-operation pattern, and no LIMIT number above the ceiling
OtherChecksPass(text) ==
    /\ ~SeveralStatements(text)
    /\ Count(text, ";") <= 1
    /\ \/ Contains(Upper(text), <<"F","R","O","M">>)
       \/ AnySearch(allowed_patterns, Upper(text))
    /\ \A j \in 1..Len(injection_patterns) :
          ~Search(injection_patterns[j][1], Upper(text), TRUE)
    /\ \A j \in 1..Len(expensive_patterns) :
          ~Search(expensive_patterns[j][1], Upper(text), FALSE)
    /\ \A i \in 1..Len(text) :
          MatchFrom(limit_pattern, 1, Upper(text), i, FALSE)
              => LimitNumberAt(text, i) <= MaxLimit

\* C21: a statement with balanced parentheses and quotes, LIMIT 50, SELECT or
\* WITH as first word and no denylisted keyword is judged safe.
RoundTripAccepted ==
    (Validated /\ RoundTripShape(ValidatedSql)) => last_update.is_safe

\* C21, amended: such a statement is judged safe when it also is a single
\* statement with at most one semicolon, has a FROM clause or selects a
\* constant, matches no injection pattern and no expensive-operation pattern,
\* and has no LIMIT number above 10000.
RoundTripAcceptedWhenClean ==
    (Validated /\ RoundTripShape(ValidatedSql) /\ OtherChecksPass(ValidatedSql))
        => last_update.is_safe

\* a common table expression with LIMIT 50, judged safe
CteWithLimit50Accepted ==
    /\ Accepted
    /\ RoundTripShape(ValidatedSql)
    /\ OtherChecksPass(ValidatedSql)
    /\ StrippedStartsWith(ValidatedSql, <<"W","I","T","H">>)

\* the channels a Validator step may write
ValidatorWrites == {"is_safe", "validation_errors"}

\* C22: the Validator is a function of the statement alone: called in any
\* state of a run, first or after other calls, it returns what it returns on
\* a state that holds nothing but that statement, and the step changes no
\* channel other than is_safe and validation_errors.
ValidatorIsPure ==
    [][last_node' = "validate_query" =>
          /\ last_update' =
                validate_query_node([generated_sql |-> state.generated_sql])
          /\ \A k \in DOMAIN state \ ValidatorWrites : state'[k] = state[k]]_vars

\* a statement validated again after a failed execution, judged safe again
ValidatedAgain ==
    /\ last_node = "validate_query"
    /\ state.generation_attempts = 2
    /\ state.execution_error # None
    /\ last_sql = state.generated_sql
    /\ last_update = [is_safe |-> TRUE, validation_errors |-> <<>>]

\* C23: max_retries is constant during a run: no node step and no routing
\* decision changes it, so it stays the value the run started with.
MaxRetriesConstant ==
    [][ /\ state'.max_retries = state.max_retries
        /\ "max_retries" \notin DOMAIN last_update' ]_vars

\* a run that used its whole budget and ended with max_retries as it began
BudgetUsedMaxRetriesKept ==
    /\ pc = "END"
    /\ last_node = "execute_query"
    /\ state.max_retries = 2
    /\ state.generation_attempts = 2
    /\ state.execution_error # None

\* C24: called on a state with is_safe false, the Executor returns the
\* failure "Query failed safety validation" whatever the database would
\* answer, writes no query_result, and the routing does not retry on it.
UnsafeExecutionNotRetried ==
    (last_node = "execute_query" /\ ~state.is_safe) =>
        /\ last_update = [execution_error |-> Some(MsgNotValidated)]
        /\ "query_result" \notin DOMAIN last_update
        /\ route_after_execution(state) = "END"

\* the state sql_query_node hands to the subgraph
FreshState(s) ==
    /\ s.generation_attempts = 0
    /\ s.max_retries = 2
    /\ s.validation_errors = <<>>
    /\ s.generated_sql = None
    /\ s.query_result = None
    /\ s.execution_error = None

OneClientPerKey ==
    ~state.cleared =>
        /\ \A k \in ModelKeys : Cardinality(state.made[k]) <= 1
        /\ \A t, other \in Threads :
              ( /\ pc[t] = "returned"
                /\ pc[other] = "returned"
                /\ last_update[t].model_key = last_update[other].model_key )
              => last_update[t].client = last_update[other].client

\* C27: the ranked result of a search whose similarity computation succeeded
\* has at most k = 5 entries, each a catalog table with its final score, each
\* score at least 0.3, in non-increasing order of score, and no table left out
\* has a final score of at least 0.3 above the score of an entry kept.
RankedTopK ==
    (last_node = "_semantic_search" /\ ~state.embedding.fails) =>
        LET retrieved == last_update.retrieved[1]
            score_of(i) == final_score(state.user_query, state.table_docs[i],
                               state.router_table_hints, state.embedding)
            kept == {retrieved[j][1] : j \in 1..Len(retrieved)}
        IN  /\ Len(retrieved) <= 5
            /\ \A j \in 1..Len(retrieved) :
                  /\ retrieved[j][3] >= Score(30)
                  /\ \E i \in 1..Len(state.table_docs) :
                        retrieved[j] =
                            <<state.table_docs[i].name, state.table_docs[i].ddl, score_of(i)>>
            /\ \A j \in 1..(Len(retrieved) - 1) :
                  retrieved[j][3] >= retrieved[j + 1][3]
            /\ \A i \in 1..Len(state.table_docs) :
                  (state.table_docs[i].name \notin kept /\ score_of(i) >= Score(30))
                  => \A j \in 1..Len(retrieved) : score_of(i) <= retrieved[j][3]

\* six tables reach the floor: five are returned and one is left out
SixthTableLeftOut ==
    /\ last_node = "_semantic_search"
    /\ ~state.embedding.fails
    /\ Len(last_update.retrieved[1]) = 5
    /\ \E i \in 1..Len(state.table_docs) :
          /\ \A j \in 1..5 : last_update.retrieved[1][j][1] # state.table_docs[i].name
          /\ final_score(state.user_query, state.table_docs[i],
                 state.router_table_hints, state.embedding) >= Score(30)

RECURSIVE relationship_boost_once(_, _, _, _)
\* the relationship boost applied once: the loop leaves at the first related
\* table the query names and passes over relationships without a name
relationship_boost_once(relationships, j, query_lower, score) ==
    IF j > Len(relationships) THEN score
    ELSE IF /\ relationships[j].related_table # <<>>
            /\ Contains(query_lower, Lower(relationships[j].related_table))
    THEN (score * 12) \div 10
    ELSE relationship_boost_once(relationships, j + 1, query_lower, score)


\* C28: the score of every table returned by a search whose similarity
\* computation succeeded is its largest weighted facet score, times 1.3
\* exactly when the table is hinted, times 1.2 exactly once when the query
\* names at least one of its related tables, and not otherwise.
RelationshipBoostOnce ==
    (last_node = "_semantic_search" /\ ~state.embedding.fails) =>
        \A j \in 1..Len(last_update.retrieved[1]) :
            \E i \in 1..Len(state.table_docs) :
                /\ last_update.retrieved[1][j][1] = state.table_docs[i].name
                /\ last_update.retrieved[1][j][3] =
                      relationship_boost_once(state.table_docs[i].relationships, 1,
                          Lower(state.user_query),
                          hint_boost(state.table_docs[i], state.router_table_hints,
                              max_score(facet_scores(state.table_docs[i],
                                                     state.embedding))))

\* the catalog tables whose name is in the hints, in catalog order
HintedTables(router_hints) ==
    LET hinted(table_doc) ==
            \E j \in 1..Len(router_hints) : router_hints[j] = table_doc.name
    IN  SelectSeq(state.table_docs, hinted)

\* the result of the search as a list: None is no table
ResultList(retrieved) == IF retrieved = None THEN <<>> ELSE retrieved[1]

\* the node ended the run at RetrieveSchemas with nothing retrieved
EndedEmptyHanded ==
    /\ pc = "END"
    /\ state.retrieved_tables = Some(<<>>)
    /\ ~Raised(last_update)

\* C29 as stated: after a failed similarity computation the search returns
\* every catalog table named in the hints, each at 0.8, and nothing when there
\* are no hints, in which case the node ends the run without raising.
FallbackAllHinted ==
    /\ (last_node = "_semantic_search" /\ state.embedding.fails) =>
          ResultList(last_update.retrieved) =
              [j \in 1..Len(HintedTables(state.router_table_hints)) |->
                  <<HintedTables(state.router_table_hints)[j].name,
                    HintedTables(state.router_table_hints)[j].ddl, Score(80)>>]
    /\ ( /\ last_node = "retrieve_schemas"
         /\ state.embedding.fails
         /\ state.router_table_hints = <<>> ) => EndedEmptyHanded

\* C29, amended: the search returns the first k = 5 catalog tables named in
\* the hints (all of them when there are no more than five), each at 0.8,
\* and nothing when there are no hints, in which case the node ends the run
\* at RetrieveSchemas with retrieved_tables empty and without raising.
FallbackFirstHinted ==
    /\ (last_node = "_semantic_search" /\ state.embedding.fails) =>
          LET hinted == HintedTables(state.router_table_hints)
              n == IF Len(hinted) < 5 THEN Len(hinted) ELSE 5
          IN  /\ ResultList(last_update.retrieved) =
                    [j \in 1..n |-> <<hinted[j].name, hinted[j].ddl, Score(80)>>]
              /\ state.router_table_hints = <<>> =>
                    Falsy(last_update.retrieved)
    /\ ( /\ last_node = "retrieve_schemas"
         /\ state.embedding.fails
         /\ state.router_table_hints = <<>> ) => EndedEmptyHanded

\* the similarity computation failed and one hinted table came back
FellBackToHint ==
    /\ last_node = "_semantic_search"
    /\ state.embedding.fails
    /\ Len(state.router_table_hints) = 1
    /\ Len(ResultList(last_update.retrieved)) = 1
    /\ last_update.retrieved[1][1][3] = Score(80)

\* C30: the expansion keeps the ranked result as the prefix of its output, and
\* every entry it appends is a catalog table that was not retrieved, is
\* appended once, has score 0.5, and has a DDL that contains REFERENCES
\* followed by the name of a retrieved table.
ExpansionAdditive ==
    last_node = "_expand_related_tables" =>
        LET retrieved == last_update.retrieved[1]
            expanded == last_update.expanded
            appended == (Len(retrieved) + 1)..Len(expanded)
        IN  /\ Len(expanded) >= Len(retrieved)
            /\ SubSeq(expanded, 1, Len(retrieved)) = retrieved
            /\ \A j \in appended :
                  /\ \A r \in 1..Len(retrieved) : retrieved[r][1] # expanded[j][1]
                  /\ \A other \in appended :
                        expanded[other][1] = expanded[j][1] => other = j
                  /\ expanded[j][3] = Score(50)
                  /\ \E i \in 1..Len(state.table_docs), r \in 1..Len(retrieved) :
                        /\ expanded[j][1] = state.table_docs[i].name
                        /\ expanded[j][2] = state.table_docs[i].ddl
                        /\ references_retrieved(state.table_docs[i], retrieved[r][1])

\* a table was appended whose DDL references two of the retrieved tables
AppendedOnceForTwoReferences ==
    /\ last_node = "_expand_related_tables"
    /\ \E j \in (Len(last_update.retrieved[1]) + 1)..Len(last_update.expanded),
          i \in 1..Len(state.table_docs) :
          /\ last_update.expanded[j][1] = state.table_docs[i].name
          /\ Cardinality({r \in 1..Len(last_update.retrieved[1]) :
                 references_retrieved(state.table_docs[i],
                                      last_update.retrieved[1][r][1])}) = 2

\* C31: a successful execution returns the first rows of the cursor, at most
\* 1000 of them, serialized and in the cursor's order, whether or not the
\* cursor holds more; the row the probe fetches shows only in the warning,
\* which is logged exactly when the cursor holds more than 1000 rows.
ResultCapped ==
    ( /\ last_node = "execute_query"
      /\ state.is_safe
      /\ state.cursor.kind = "rows" ) =>
        LET rows == state.cursor.rows
            data == state.query_result[1]
        IN  /\ state.query_result # None
            /\ Len(data) <= 1000
            /\ Len(data) = IF Len(rows) < 1000 THEN Len(rows) ELSE 1000
            /\ \A i \in 1..Len(data) :
                  data[i] = [c \in 1..Len(rows[i]) |-> serialize_value(rows[i][c])]
            /\ (last_prompt # None) <=> (Len(rows) > 1000)

\* the cap was hit and the probe found a further row
TruncatedAtCap ==
    /\ last_node = "execute_query"
    /\ state.is_safe
    /\ Len(state.cursor.rows) = 1001
    /\ Len(state.query_result[1]) = 1000
    /\ last_prompt # None

\* C32: in the rows a successful execution returns, every cell that is not
\* datetime-like, decimal-like, bytes or a nested or object value is the cell
\* the cursor held: an integer the same integer, a boolean the same boolean,
\* a string the same string, null null.
OtherCellsUnchanged ==
    ( /\ last_node = "execute_query"
      /\ state.is_safe
      /\ state.cursor.kind = "rows" ) =>
        \A i \in 1..Len(state.query_result[1]) :
            \A c \in 1..Len(state.cursor.rows[i]) :
                state.cursor.rows[i][c].type \in {"NoneType", "int", "bool", "str"}
                => state.query_result[1][i][c] = state.cursor.rows[i][c]

GeneratorRunsWithinBudget ==
    /\ [](state.generation_attempts <=
              IF state.max_retries > 1 THEN state.max_retries ELSE 1)
    /\ [][ /\ last_node' = "generate_sql" =>
                 state'.generation_attempts = state.generation_attempts + 1
           /\ last_node' # "generate_sql" =>
                 state'.generation_attempts = state.generation_attempts
           /\ (last_node' = "execute_query" /\ pc' = "generate_sql") =>
                 state'.generation_attempts < state'.max_retries
           /\ last_node' = "execute_query" => last_node = "validate_query"
           /\ last_node' = "validate_query" => last_node = "generate_sql" ]_vars

\* with max_retries = 2 the run ended after one regeneration and a second
\* failed execution
EndedAfterOneRegeneration ==
    /\ pc = "END"
    /\ last_node = "execute_query"
    /\ state.max_retries = 2
    /\ state.generation_attempts = 2
    /\ state.execution_error # None

\* C35: whenever is_safe is true, generated_sql is set and is the statement
\* the Validator accepted last: the last step was the Validator accepting it
\* or the Executor running it, not the retrieval (no SQL exists yet) and not
\* a generation (its SQL has not been validated yet).
IsSafeMeansValidated ==
    state.is_safe =>
        /\ state.generated_sql # None
        /\ last_node \in {"validate_query", "execute_query"}

\* C36: the retrieval is the first step of a run and is never run again (the
\* run is at RetrieveSchemas exactly before its first step; after the
\* Executor the run goes to GenerateSQL or ends), and from the end of the
\* retrieval on no step changes retrieved_tables.
RetrievedOnce ==
    /\ [](pc = "retrieve_schemas" <=> last_node = "START")
    /\ [][ /\ last_node' = "retrieve_schemas" => last_node = "START"
           /\ last_node' = "execute_query" => pc' \in {"generate_sql", "END"}
           /\ last_node # "START" =>
                 state'.retrieved_tables = state.retrieved_tables ]_vars

\* the retry has regenerated from the tables the retrieval left
RegeneratedFromSameTables ==
    /\ last_node = "generate_sql"
    /\ state.generation_attempts = 2
    /\ state.retrieved_tables # None
    /\ state.execution_error # None

\* C37: when the last execution of a run succeeded, the run ends with
\* execution_error null, validation_errors empty and query_result set,
\* whatever failed in earlier attempts, and sql_query_node reports the result
\* and not an error.
RecoveredRunSucceeds ==
    ( /\ pc = "END"
      /\ last_node = "execute_query"
      /\ "query_result" \in DOMAIN last_update
      /\ last_update.query_result # None ) =>
        /\ state.execution_error = None
        /\ state.validation_errors = <<>>
        /\ state.query_result # None
        /\ sql_query_report(state) = "visualization"

\* the first execution failed and the second one succeeded
SucceededOnRetry ==
    /\ pc = "END"
    /\ last_node = "execute_query"
    /\ state.generation_attempts = 2
    /\ state.query_result # None
    /\ state.execution_error = None

\* C38: a run that ends with a validation error or an execution error ends
\* with query_result null.
NoResultWithError ==
    ( /\ pc = "END"
      /\ (state.validation_errors # <<>> \/ state.execution_error # None) )
    => state.query_result = None

\* the run ended on a failed execution after a retry, without a result
EndedOnErrorWithoutResult ==
    /\ pc = "END"
    /\ last_node = "execute_query"
    /\ state.generation_attempts > 1
    /\ state.execution_error # None
    /\ state.query_result = None

\* C39: under any interleaving of constructions of the DataSourceFactory with
\* register_datasource calls, the registry is initialised exactly once and
\* every datasource that was registered is still registered.
RegistryInitialisedOnce ==
    /\ state.initializations <= 1
    /\ state.registered \subseteq state.configurations

\* the names with an entry in a cache
cached_names(cache) == {n \in DatasourceNames : cache[n] # None}

\* C40: with one caller of the DataSourceFactory, after every call the engine
\* cache and the session-maker cache have the same names, all of them
\* registered; get_engine of an unregistered name raises ValueError and leaves
\* both caches as they were; get_engine of a name with a cached engine returns
\* that engine and creates none; close_all_connections empties both caches and
\* keeps the registrations.
CachesAgree ==
    /\ [](/\ cached_names(state.engines) = cached_names(state.session_makers)
          /\ cached_names(state.engines) \subseteq state.configurations)
    /\ [][LET called == last_update'[1]
          IN  /\ called.call = "get_engine" =>
                    /\ called.result = "ValueError" <=> called.name[1] \notin state.configurations
                    /\ called.result = "ValueError" =>
                          /\ state'.engines = state.engines
                          /\ state'.session_makers = state.session_makers
                    /\ state.engines[called.name[1]] # None =>
                          /\ called.result = "engine"
                          /\ called.engine = state.engines[called.name[1]]
                          /\ state' = state
              /\ called.call = "close_all_connections" =>
                    /\ cached_names(state'.engines) = {}
                    /\ cached_names(state'.session_makers) = {}
                    /\ state'.configurations = state.configurations]_vars

\* get_engine of an unregistered name has just raised ValueError while the
\* registered name has its second engine cached, the first one having been
\* closed
SecondEngineUntouchedByValueError ==
    /\ last_update[1].call = "get_engine"
    /\ last_update[1].name = Some("analytics")
    /\ last_update[1].result = "ValueError"
    /\ state.configurations = {"mysql.primary"}
    /\ state.engines["mysql.primary"] = Some(2)
    /\ state.session_makers["mysql.primary"] = Some(2)

====
